---------------------------- MODULE Spec2Model ----------------------------
(***************************************************************************)
(* Verification model of auditrs: the record-type taxonomy (record.rs),    *)
(* the netlink transport and its bounded queue (audit_transport/           *)
(* netlink.rs), the staged pipeline and its shutdown path (main.rs) and    *)
(* the record correlator (correlator.rs).                                  *)
(*                                                                         *)
(* The module carries several specifications over one set of variables;    *)
(* each specification leaves the variables of the other parts unchanged.   *)
(*   SpecTaxonomy   RecordType <-> u16 conversions                         *)
(*   SpecTransport  NetlinkAuditTransport: listener task, queue, recv      *)
(*   Spec           main(): spawned stages, SIGINT, abort, join            *)
(*   SpecCorrelator AuditRecordCorrelator and its pipeline stage           *)
(*   SpecLive       Spec under the fairness of the tokio scheduler         *)
(*   SpecLine       read_to_fields and parse_to_record on one line         *)
(*   SpecLogFile    parse_log_file on a file of lines                      *)
(*   SpecRender     AuditRecord::new and to_log on read-back messages      *)
(*   SpecCapture    capture to the length-prefixed file and read-back      *)
(*   SpecEvent      AuditEvent: new_simple, is_simple, is_compound         *)
(***************************************************************************)
EXTENDS Integers, Sequences, FiniteSets, Bags, TLC

(***************************************************************************)
(* Bounds of the model.                                                    *)
(***************************************************************************)
\* Capacity of a stage-to-stage queue. The source creates every queue with
\* mpsc::channel(1000) (main.rs:31-33, netlink.rs:20); the model scales the
\* capacity down so that a full queue is reached within the state bound.
ChannelCapacity == 2

\* Number of kernel messages the netlink stream yields before the model
\* stops producing: enough to fill the queue and block one further send.
MaxKernelMsgs == ChannelCapacity + 2

\* Number of records handed to the correlator in one behaviour.
MaxDelivered == 4

\* Loop iterations of the correlator stage (100 ms each, main.rs:104) after
\* which an idle accumulation counts as older than end_of_event_timeout
\* (correlator.rs:39-40).
IdleLimit == 2

\* Longest line (in characters) handed to read_to_fields.
MaxLineLen == 6

\* Largest number of lines in a log file handed to parse_log_file.
MaxFileLines == 3

\* Largest number of messages the stream yields during one capture.
MaxCaptured == 2

\* Longest serialized message, in bytes.
MaxBufferLen == 2

\* Longest record list of an AuditEvent under test.
MaxEventRecords == 2

(***************************************************************************)
(* record.rs: RecordType.  A value of the enum is a record with the        *)
(* variant's name and the payload v (0 for the payload-free variants).     *)
(***************************************************************************)
\* u16 (record.rs:169, 289, 407)
U16 == 0 .. (2^16 - 1)

Named(name) == [variant |-> name, v |-> 0]

Unknown(value) == [variant |-> "Unknown", v |-> value]

\* enum RecordType (record.rs:41-170)
VariantNames ==
    { "GetStatus", "SetStatus", "List", "Add", "Del", "User", "Login", "WatchInsert", "WatchRemove",
    "WatchList", "SignalInfo", "AddRule", "DelRule", "ListRules", "Trim", "MakeEquiv", "TtyGet",
    "TtySet", "SetFeature", "GetFeature", "FirstUserMsg", "UserAvc", "UserTty", "LastUserMsg",
    "DaemonStart", "DaemonEnd", "DaemonAbort", "DaemonConfig", "Syscall", "Path", "Ipc",
    "Socketcall", "ConfigChange", "Sockaddr", "Cwd", "Execve", "IpcSetPerm", "MqOpen", "MqSendRecv",
    "MqNotify", "MqGetSetAttr", "KernelOther", "FdPair", "ObjPid", "Tty", "Eoe", "BprmFcaps",
    "Capset", "Mmap", "NetfilterPkt", "NetfilterCfg", "Seccomp", "Proctitle", "FeatureChange",
    "Replace", "KernModule", "Fanotify", "TimeInjOffset", "TimeAdjNtpVal", "Bpf", "EventListener",
    "Avc", "SelinuxErr", "AvcPath", "MacPolicyLoad", "MacStatus", "MacConfigChange",
    "MacUnlblAllow", "MacCipsoV4Add", "MacCipsoV4Del", "MacMapAdd", "MacMapDel", "MacIpsecEvent",
    "MacUnlblStcAdd", "MacUnlblStcDel", "MacCalipsoAdd", "MacCalipsoDel", "MacTaskContexts",
    "MacObjContexts", "AnomalyPromiscuous", "AnomalyAbend", "AnomalyLink", "AnomalyCreat",
    "IntegrityData", "IntegrityMetadata", "IntegrityStatus", "IntegrityHash", "IntegrityPcr",
    "IntegrityRule", "IntegrityEvmXattr", "IntegrityPolicyRule", "CryptoKeyUser", "Unknown"}

\* RecordType values: every payload-free variant and Unknown(v) for every u16 v
RecordType ==
    {t \in [variant : VariantNames, v : U16] : t.variant # "Unknown" => t.v = 0}

\* RecordType::as_audit_str (record.rs:173-287)
as_audit_str(self) ==
    CASE self.variant = "GetStatus" -> "GET_STATUS"
      [] self.variant = "SetStatus" -> "SET_STATUS"
      [] self.variant = "List" -> "LIST"
      [] self.variant = "Add" -> "ADD"
      [] self.variant = "Del" -> "DEL"
      [] self.variant = "User" -> "USER"
      [] self.variant = "Login" -> "LOGIN"
      [] self.variant = "WatchInsert" -> "WATCH_INSERT"
      [] self.variant = "WatchRemove" -> "WATCH_REMOVE"
      [] self.variant = "WatchList" -> "WATCH_LIST"
      [] self.variant = "SignalInfo" -> "SIGNAL_INFO"
      [] self.variant = "AddRule" -> "ADD_RULE"
      [] self.variant = "DelRule" -> "DEL_RULE"
      [] self.variant = "ListRules" -> "LIST_RULES"
      [] self.variant = "Trim" -> "TRIM"
      [] self.variant = "MakeEquiv" -> "MAKE_EQUIV"
      [] self.variant = "TtyGet" -> "TTY_GET"
      [] self.variant = "TtySet" -> "TTY_SET"
      [] self.variant = "SetFeature" -> "SET_FEATURE"
      [] self.variant = "GetFeature" -> "GET_FEATURE"
      [] self.variant = "FirstUserMsg" -> "USER_FIRST_MSG"
      [] self.variant = "UserAvc" -> "USER_AVC"
      [] self.variant = "UserTty" -> "USER_TTY"
      [] self.variant = "LastUserMsg" -> "USER_LAST_MSG"
      [] self.variant = "DaemonStart" -> "DAEMON_START"
      [] self.variant = "DaemonEnd" -> "DAEMON_END"
      [] self.variant = "DaemonAbort" -> "DAEMON_ABORT"
      [] self.variant = "DaemonConfig" -> "DAEMON_CONFIG"
      [] self.variant = "Syscall" -> "SYSCALL"
      [] self.variant = "Path" -> "PATH"
      [] self.variant = "Ipc" -> "IPC"
      [] self.variant = "Socketcall" -> "SOCKETCALL"
      [] self.variant = "ConfigChange" -> "CONFIG_CHANGE"
      [] self.variant = "Sockaddr" -> "SOCKADDR"
      [] self.variant = "Cwd" -> "CWD"
      [] self.variant = "Execve" -> "EXECVE"
      [] self.variant = "IpcSetPerm" -> "IPC_SET_PERM"
      [] self.variant = "MqOpen" -> "MQ_OPEN"
      [] self.variant = "MqSendRecv" -> "MQ_SEND_RECV"
      [] self.variant = "MqNotify" -> "MQ_NOTIFY"
      [] self.variant = "MqGetSetAttr" -> "MQ_GETSETATTR"
      [] self.variant = "KernelOther" -> "KERNEL_OTHER"
      [] self.variant = "FdPair" -> "FD_PAIR"
      [] self.variant = "ObjPid" -> "OBJ_PID"
      [] self.variant = "Tty" -> "TTY"
      [] self.variant = "Eoe" -> "EOE"
      [] self.variant = "BprmFcaps" -> "BPRM_FCAPS"
      [] self.variant = "Capset" -> "CAPSET"
      [] self.variant = "Mmap" -> "MMAP"
      [] self.variant = "NetfilterPkt" -> "NETFILTER_PKT"
      [] self.variant = "NetfilterCfg" -> "NETFILTER_CFG"
      [] self.variant = "Seccomp" -> "SECCOMP"
      [] self.variant = "Proctitle" -> "PROCTITLE"
      [] self.variant = "FeatureChange" -> "FEATURE_CHANGE"
      [] self.variant = "Replace" -> "REPLACE"
      [] self.variant = "KernModule" -> "KERN_MODULE"
      [] self.variant = "Fanotify" -> "FANOTIFY"
      [] self.variant = "TimeInjOffset" -> "TIME_INJ_OFFSET"
      [] self.variant = "TimeAdjNtpVal" -> "TIME_ADJ_NTP_VAL"
      [] self.variant = "Bpf" -> "BPF"
      [] self.variant = "EventListener" -> "EVENT_LISTENER"
      [] self.variant = "Avc" -> "AVC"
      [] self.variant = "SelinuxErr" -> "SELINUX_ERR"
      [] self.variant = "AvcPath" -> "AVC_PATH"
      [] self.variant = "MacPolicyLoad" -> "MAC_POLICY_LOAD"
      [] self.variant = "MacStatus" -> "MAC_STATUS"
      [] self.variant = "MacConfigChange" -> "MAC_CONFIG_CHANGE"
      [] self.variant = "MacUnlblAllow" -> "MAC_UNLBL_ALLOW"
      [] self.variant = "MacCipsoV4Add" -> "MAC_CIPSO_V4_ADD"
      [] self.variant = "MacCipsoV4Del" -> "MAC_CIPSO_V4_DEL"
      [] self.variant = "MacMapAdd" -> "MAC_MAP_ADD"
      [] self.variant = "MacMapDel" -> "MAC_MAP_DEL"
      [] self.variant = "MacIpsecEvent" -> "MAC_IPSEC_EVENT"
      [] self.variant = "MacUnlblStcAdd" -> "MAC_UNLBL_STC_ADD"
      [] self.variant = "MacUnlblStcDel" -> "MAC_UNLBL_STC_DEL"
      [] self.variant = "MacCalipsoAdd" -> "MAC_CALIPSO_ADD"
      [] self.variant = "MacCalipsoDel" -> "MAC_CALIPSO_DEL"
      [] self.variant = "MacTaskContexts" -> "MAC_TASK_CONTEXTS"
      [] self.variant = "MacObjContexts" -> "MAC_OBJ_CONTEXTS"
      [] self.variant = "AnomalyPromiscuous" -> "ANOM_PROMISCUOUS"
      [] self.variant = "AnomalyAbend" -> "ANOM_ABEND"
      [] self.variant = "AnomalyLink" -> "ANOM_LINK"
      [] self.variant = "AnomalyCreat" -> "ANOM_CREAT"
      [] self.variant = "IntegrityData" -> "INTEGRITY_DATA"
      [] self.variant = "IntegrityMetadata" -> "INTEGRITY_METADATA"
      [] self.variant = "IntegrityStatus" -> "INTEGRITY_STATUS"
      [] self.variant = "IntegrityHash" -> "INTEGRITY_HASH"
      [] self.variant = "IntegrityPcr" -> "INTEGRITY_PCR"
      [] self.variant = "IntegrityRule" -> "INTEGRITY_RULE"
      [] self.variant = "IntegrityEvmXattr" -> "INTEGRITY_EVM_XATTR"
      [] self.variant = "IntegrityPolicyRule" -> "INTEGRITY_POLICY_RULE"
      [] self.variant = "CryptoKeyUser" -> "CRYPTO_KEY_USER"
      [] self.variant = "Unknown" -> "UNKNOWN"

\* Variant of From<u16> whose fallback arm does not keep the code.
RecordTypeFromU16_Lossy(value) ==
    CASE value = 1000 -> Named("GetStatus")
      [] value = 1001 -> Named("SetStatus")
      [] value = 1002 -> Named("List")
      [] value = 1003 -> Named("Add")
      [] value = 1004 -> Named("Del")
      [] value = 1005 -> Named("User")
      [] value = 1006 -> Named("Login")
      [] value = 1007 -> Named("WatchInsert")
      [] value = 1008 -> Named("WatchRemove")
      [] value = 1009 -> Named("WatchList")
      [] value = 1010 -> Named("SignalInfo")
      [] value = 1011 -> Named("AddRule")
      [] value = 1012 -> Named("DelRule")
      [] value = 1013 -> Named("ListRules")
      [] value = 1014 -> Named("Trim")
      [] value = 1015 -> Named("MakeEquiv")
      [] value = 1016 -> Named("TtyGet")
      [] value = 1017 -> Named("TtySet")
      [] value = 1018 -> Named("SetFeature")
      [] value = 1019 -> Named("GetFeature")
      [] value = 1100 -> Named("FirstUserMsg")
      [] value = 1107 -> Named("UserAvc")
      [] value = 1124 -> Named("UserTty")
      [] value = 1199 -> Named("LastUserMsg")
      [] value = 1200 -> Named("DaemonStart")
      [] value = 1201 -> Named("DaemonEnd")
      [] value = 1202 -> Named("DaemonAbort")
      [] value = 1203 -> Named("DaemonConfig")
      [] value = 1300 -> Named("Syscall")
      [] value = 1302 -> Named("Path")
      [] value = 1303 -> Named("Ipc")
      [] value = 1304 -> Named("Socketcall")
      [] value = 1305 -> Named("ConfigChange")
      [] value = 1306 -> Named("Sockaddr")
      [] value = 1307 -> Named("Cwd")
      [] value = 1309 -> Named("Execve")
      [] value = 1311 -> Named("IpcSetPerm")
      [] value = 1312 -> Named("MqOpen")
      [] value = 1313 -> Named("MqSendRecv")
      [] value = 1314 -> Named("MqNotify")
      [] value = 1315 -> Named("MqGetSetAttr")
      [] value = 1316 -> Named("KernelOther")
      [] value = 1317 -> Named("FdPair")
      [] value = 1318 -> Named("ObjPid")
      [] value = 1319 -> Named("Tty")
      [] value = 1320 -> Named("Eoe")
      [] value = 1321 -> Named("BprmFcaps")
      [] value = 1322 -> Named("Capset")
      [] value = 1323 -> Named("Mmap")
      [] value = 1324 -> Named("NetfilterPkt")
      [] value = 1325 -> Named("NetfilterCfg")
      [] value = 1326 -> Named("Seccomp")
      [] value = 1327 -> Named("Proctitle")
      [] value = 1328 -> Named("FeatureChange")
      [] value = 1329 -> Named("Replace")
      [] value = 1330 -> Named("KernModule")
      [] value = 1331 -> Named("Fanotify")
      [] value = 1332 -> Named("TimeInjOffset")
      [] value = 1333 -> Named("TimeAdjNtpVal")
      [] value = 1334 -> Named("Bpf")
      [] value = 1335 -> Named("EventListener")
      [] value = 1400 -> Named("Avc")
      [] value = 1401 -> Named("SelinuxErr")
      [] value = 1402 -> Named("AvcPath")
      [] value = 1403 -> Named("MacPolicyLoad")
      [] value = 1404 -> Named("MacStatus")
      [] value = 1405 -> Named("MacConfigChange")
      [] value = 1406 -> Named("MacUnlblAllow")
      [] value = 1407 -> Named("MacCipsoV4Add")
      [] value = 1408 -> Named("MacCipsoV4Del")
      [] value = 1409 -> Named("MacMapAdd")
      [] value = 1410 -> Named("MacMapDel")
      [] value = 1415 -> Named("MacIpsecEvent")
      [] value = 1416 -> Named("MacUnlblStcAdd")
      [] value = 1417 -> Named("MacUnlblStcDel")
      [] value = 1418 -> Named("MacCalipsoAdd")
      [] value = 1419 -> Named("MacCalipsoDel")
      [] value = 1420 -> Named("MacTaskContexts")
      [] value = 1421 -> Named("MacObjContexts")
      [] value = 1700 -> Named("AnomalyPromiscuous")
      [] value = 1701 -> Named("AnomalyAbend")
      [] value = 1702 -> Named("AnomalyLink")
      [] value = 1703 -> Named("AnomalyCreat")
      [] value = 1800 -> Named("IntegrityData")
      [] value = 1801 -> Named("IntegrityMetadata")
      [] value = 1802 -> Named("IntegrityStatus")
      [] value = 1803 -> Named("IntegrityHash")
      [] value = 1804 -> Named("IntegrityPcr")
      [] value = 1805 -> Named("IntegrityRule")
      [] value = 1806 -> Named("IntegrityEvmXattr")
      [] value = 1807 -> Named("IntegrityPolicyRule")
      [] value = 2000 -> Named("CryptoKeyUser")
      [] OTHER -> Unknown(0)

\* impl From<u16> for RecordType (record.rs:289-405)
RecordTypeFromU16(value) ==
    CASE value = 1000 -> Named("GetStatus")
      [] value = 1001 -> Named("SetStatus")
      [] value = 1002 -> Named("List")
      [] value = 1003 -> Named("Add")
      [] value = 1004 -> Named("Del")
      [] value = 1005 -> Named("User")
      [] value = 1006 -> Named("Login")
      [] value = 1007 -> Named("WatchInsert")
      [] value = 1008 -> Named("WatchRemove")
      [] value = 1009 -> Named("WatchList")
      [] value = 1010 -> Named("SignalInfo")
      [] value = 1011 -> Named("AddRule")
      [] value = 1012 -> Named("DelRule")
      [] value = 1013 -> Named("ListRules")
      [] value = 1014 -> Named("Trim")
      [] value = 1015 -> Named("MakeEquiv")
      [] value = 1016 -> Named("TtyGet")
      [] value = 1017 -> Named("TtySet")
      [] value = 1018 -> Named("SetFeature")
      [] value = 1019 -> Named("GetFeature")
      [] value = 1100 -> Named("FirstUserMsg")
      [] value = 1107 -> Named("UserAvc")
      [] value = 1124 -> Named("UserTty")
      [] value = 1199 -> Named("LastUserMsg")
      [] value = 1200 -> Named("DaemonStart")
      [] value = 1201 -> Named("DaemonEnd")
      [] value = 1202 -> Named("DaemonAbort")
      [] value = 1203 -> Named("DaemonConfig")
      [] value = 1300 -> Named("Syscall")
      [] value = 1302 -> Named("Path")
      [] value = 1303 -> Named("Ipc")
      [] value = 1304 -> Named("Socketcall")
      [] value = 1305 -> Named("ConfigChange")
      [] value = 1306 -> Named("Sockaddr")
      [] value = 1307 -> Named("Cwd")
      [] value = 1309 -> Named("Execve")
      [] value = 1311 -> Named("IpcSetPerm")
      [] value = 1312 -> Named("MqOpen")
      [] value = 1313 -> Named("MqSendRecv")
      [] value = 1314 -> Named("MqNotify")
      [] value = 1315 -> Named("MqGetSetAttr")
      [] value = 1316 -> Named("KernelOther")
      [] value = 1317 -> Named("FdPair")
      [] value = 1318 -> Named("ObjPid")
      [] value = 1319 -> Named("Tty")
      [] value = 1320 -> Named("Eoe")
      [] value = 1321 -> Named("BprmFcaps")
      [] value = 1322 -> Named("Capset")
      [] value = 1323 -> Named("Mmap")
      [] value = 1324 -> Named("NetfilterPkt")
      [] value = 1325 -> Named("NetfilterCfg")
      [] value = 1326 -> Named("Seccomp")
      [] value = 1327 -> Named("Proctitle")
      [] value = 1328 -> Named("FeatureChange")
      [] value = 1329 -> Named("Replace")
      [] value = 1330 -> Named("KernModule")
      [] value = 1331 -> Named("Fanotify")
      [] value = 1332 -> Named("TimeInjOffset")
      [] value = 1333 -> Named("TimeAdjNtpVal")
      [] value = 1334 -> Named("Bpf")
      [] value = 1335 -> Named("EventListener")
      [] value = 1400 -> Named("Avc")
      [] value = 1401 -> Named("SelinuxErr")
      [] value = 1402 -> Named("AvcPath")
      [] value = 1403 -> Named("MacPolicyLoad")
      [] value = 1404 -> Named("MacStatus")
      [] value = 1405 -> Named("MacConfigChange")
      [] value = 1406 -> Named("MacUnlblAllow")
      [] value = 1407 -> Named("MacCipsoV4Add")
      [] value = 1408 -> Named("MacCipsoV4Del")
      [] value = 1409 -> Named("MacMapAdd")
      [] value = 1410 -> Named("MacMapDel")
      [] value = 1415 -> Named("MacIpsecEvent")
      [] value = 1416 -> Named("MacUnlblStcAdd")
      [] value = 1417 -> Named("MacUnlblStcDel")
      [] value = 1418 -> Named("MacCalipsoAdd")
      [] value = 1419 -> Named("MacCalipsoDel")
      [] value = 1420 -> Named("MacTaskContexts")
      [] value = 1421 -> Named("MacObjContexts")
      [] value = 1700 -> Named("AnomalyPromiscuous")
      [] value = 1701 -> Named("AnomalyAbend")
      [] value = 1702 -> Named("AnomalyLink")
      [] value = 1703 -> Named("AnomalyCreat")
      [] value = 1800 -> Named("IntegrityData")
      [] value = 1801 -> Named("IntegrityMetadata")
      [] value = 1802 -> Named("IntegrityStatus")
      [] value = 1803 -> Named("IntegrityHash")
      [] value = 1804 -> Named("IntegrityPcr")
      [] value = 1805 -> Named("IntegrityRule")
      [] value = 1806 -> Named("IntegrityEvmXattr")
      [] value = 1807 -> Named("IntegrityPolicyRule")
      [] value = 2000 -> Named("CryptoKeyUser")
      [] OTHER -> Unknown(value)

\* From<RecordType> for u16 with the arm of Path giving the code of Syscall
U16FromRecordType_PathAsSyscall(value) ==
    CASE value.variant = "GetStatus" -> 1000
      [] value.variant = "SetStatus" -> 1001
      [] value.variant = "List" -> 1002
      [] value.variant = "Add" -> 1003
      [] value.variant = "Del" -> 1004
      [] value.variant = "User" -> 1005
      [] value.variant = "Login" -> 1006
      [] value.variant = "WatchInsert" -> 1007
      [] value.variant = "WatchRemove" -> 1008
      [] value.variant = "WatchList" -> 1009
      [] value.variant = "SignalInfo" -> 1010
      [] value.variant = "AddRule" -> 1011
      [] value.variant = "DelRule" -> 1012
      [] value.variant = "ListRules" -> 1013
      [] value.variant = "Trim" -> 1014
      [] value.variant = "MakeEquiv" -> 1015
      [] value.variant = "TtyGet" -> 1016
      [] value.variant = "TtySet" -> 1017
      [] value.variant = "SetFeature" -> 1018
      [] value.variant = "GetFeature" -> 1019
      [] value.variant = "FirstUserMsg" -> 1100
      [] value.variant = "UserAvc" -> 1107
      [] value.variant = "UserTty" -> 1124
      [] value.variant = "LastUserMsg" -> 1199
      [] value.variant = "DaemonStart" -> 1200
      [] value.variant = "DaemonEnd" -> 1201
      [] value.variant = "DaemonAbort" -> 1202
      [] value.variant = "DaemonConfig" -> 1203
      [] value.variant = "Syscall" -> 1300
      [] value.variant = "Path" -> 1300
      [] value.variant = "Ipc" -> 1303
      [] value.variant = "Socketcall" -> 1304
      [] value.variant = "ConfigChange" -> 1305
      [] value.variant = "Sockaddr" -> 1306
      [] value.variant = "Cwd" -> 1307
      [] value.variant = "Execve" -> 1309
      [] value.variant = "IpcSetPerm" -> 1311
      [] value.variant = "MqOpen" -> 1312
      [] value.variant = "MqSendRecv" -> 1313
      [] value.variant = "MqNotify" -> 1314
      [] value.variant = "MqGetSetAttr" -> 1315
      [] value.variant = "KernelOther" -> 1316
      [] value.variant = "FdPair" -> 1317
      [] value.variant = "ObjPid" -> 1318
      [] value.variant = "Tty" -> 1319
      [] value.variant = "Eoe" -> 1320
      [] value.variant = "BprmFcaps" -> 1321
      [] value.variant = "Capset" -> 1322
      [] value.variant = "Mmap" -> 1323
      [] value.variant = "NetfilterPkt" -> 1324
      [] value.variant = "NetfilterCfg" -> 1325
      [] value.variant = "Seccomp" -> 1326
      [] value.variant = "Proctitle" -> 1327
      [] value.variant = "FeatureChange" -> 1328
      [] value.variant = "Replace" -> 1329
      [] value.variant = "KernModule" -> 1330
      [] value.variant = "Fanotify" -> 1331
      [] value.variant = "TimeInjOffset" -> 1332
      [] value.variant = "TimeAdjNtpVal" -> 1333
      [] value.variant = "Bpf" -> 1334
      [] value.variant = "EventListener" -> 1335
      [] value.variant = "Avc" -> 1400
      [] value.variant = "SelinuxErr" -> 1401
      [] value.variant = "AvcPath" -> 1402
      [] value.variant = "MacPolicyLoad" -> 1403
      [] value.variant = "MacStatus" -> 1404
      [] value.variant = "MacConfigChange" -> 1405
      [] value.variant = "MacUnlblAllow" -> 1406
      [] value.variant = "MacCipsoV4Add" -> 1407
      [] value.variant = "MacCipsoV4Del" -> 1408
      [] value.variant = "MacMapAdd" -> 1409
      [] value.variant = "MacMapDel" -> 1410
      [] value.variant = "MacIpsecEvent" -> 1415
      [] value.variant = "MacUnlblStcAdd" -> 1416
      [] value.variant = "MacUnlblStcDel" -> 1417
      [] value.variant = "MacCalipsoAdd" -> 1418
      [] value.variant = "MacCalipsoDel" -> 1419
      [] value.variant = "MacTaskContexts" -> 1420
      [] value.variant = "MacObjContexts" -> 1421
      [] value.variant = "AnomalyPromiscuous" -> 1700
      [] value.variant = "AnomalyAbend" -> 1701
      [] value.variant = "AnomalyLink" -> 1702
      [] value.variant = "AnomalyCreat" -> 1703
      [] value.variant = "IntegrityData" -> 1800
      [] value.variant = "IntegrityMetadata" -> 1801
      [] value.variant = "IntegrityStatus" -> 1802
      [] value.variant = "IntegrityHash" -> 1803
      [] value.variant = "IntegrityPcr" -> 1804
      [] value.variant = "IntegrityRule" -> 1805
      [] value.variant = "IntegrityEvmXattr" -> 1806
      [] value.variant = "IntegrityPolicyRule" -> 1807
      [] value.variant = "CryptoKeyUser" -> 2000
      [] value.variant = "Unknown" -> value.v

\* impl From<RecordType> for u16 (record.rs:407-515)
U16FromRecordType(value) ==
    CASE value.variant = "GetStatus" -> 1000
      [] value.variant = "SetStatus" -> 1001
      [] value.variant = "List" -> 1002
      [] value.variant = "Add" -> 1003
      [] value.variant = "Del" -> 1004
      [] value.variant = "User" -> 1005
      [] value.variant = "Login" -> 1006
      [] value.variant = "WatchInsert" -> 1007
      [] value.variant = "WatchRemove" -> 1008
      [] value.variant = "WatchList" -> 1009
      [] value.variant = "SignalInfo" -> 1010
      [] value.variant = "AddRule" -> 1011
      [] value.variant = "DelRule" -> 1012
      [] value.variant = "ListRules" -> 1013
      [] value.variant = "Trim" -> 1014
      [] value.variant = "MakeEquiv" -> 1015
      [] value.variant = "TtyGet" -> 1016
      [] value.variant = "TtySet" -> 1017
      [] value.variant = "SetFeature" -> 1018
      [] value.variant = "GetFeature" -> 1019
      [] value.variant = "FirstUserMsg" -> 1100
      [] value.variant = "UserAvc" -> 1107
      [] value.variant = "UserTty" -> 1124
      [] value.variant = "LastUserMsg" -> 1199
      [] value.variant = "DaemonStart" -> 1200
      [] value.variant = "DaemonEnd" -> 1201
      [] value.variant = "DaemonAbort" -> 1202
      [] value.variant = "DaemonConfig" -> 1203
      [] value.variant = "Syscall" -> 1300
      [] value.variant = "Path" -> 1302
      [] value.variant = "Ipc" -> 1303
      [] value.variant = "Socketcall" -> 1304
      [] value.variant = "ConfigChange" -> 1305
      [] value.variant = "Sockaddr" -> 1306
      [] value.variant = "Cwd" -> 1307
      [] value.variant = "Execve" -> 1309
      [] value.variant = "IpcSetPerm" -> 1311
      [] value.variant = "MqOpen" -> 1312
      [] value.variant = "MqSendRecv" -> 1313
      [] value.variant = "MqNotify" -> 1314
      [] value.variant = "MqGetSetAttr" -> 1315
      [] value.variant = "KernelOther" -> 1316
      [] value.variant = "FdPair" -> 1317
      [] value.variant = "ObjPid" -> 1318
      [] value.variant = "Tty" -> 1319
      [] value.variant = "Eoe" -> 1320
      [] value.variant = "BprmFcaps" -> 1321
      [] value.variant = "Capset" -> 1322
      [] value.variant = "Mmap" -> 1323
      [] value.variant = "NetfilterPkt" -> 1324
      [] value.variant = "NetfilterCfg" -> 1325
      [] value.variant = "Seccomp" -> 1326
      [] value.variant = "Proctitle" -> 1327
      [] value.variant = "FeatureChange" -> 1328
      [] value.variant = "Replace" -> 1329
      [] value.variant = "KernModule" -> 1330
      [] value.variant = "Fanotify" -> 1331
      [] value.variant = "TimeInjOffset" -> 1332
      [] value.variant = "TimeAdjNtpVal" -> 1333
      [] value.variant = "Bpf" -> 1334
      [] value.variant = "EventListener" -> 1335
      [] value.variant = "Avc" -> 1400
      [] value.variant = "SelinuxErr" -> 1401
      [] value.variant = "AvcPath" -> 1402
      [] value.variant = "MacPolicyLoad" -> 1403
      [] value.variant = "MacStatus" -> 1404
      [] value.variant = "MacConfigChange" -> 1405
      [] value.variant = "MacUnlblAllow" -> 1406
      [] value.variant = "MacCipsoV4Add" -> 1407
      [] value.variant = "MacCipsoV4Del" -> 1408
      [] value.variant = "MacMapAdd" -> 1409
      [] value.variant = "MacMapDel" -> 1410
      [] value.variant = "MacIpsecEvent" -> 1415
      [] value.variant = "MacUnlblStcAdd" -> 1416
      [] value.variant = "MacUnlblStcDel" -> 1417
      [] value.variant = "MacCalipsoAdd" -> 1418
      [] value.variant = "MacCalipsoDel" -> 1419
      [] value.variant = "MacTaskContexts" -> 1420
      [] value.variant = "MacObjContexts" -> 1421
      [] value.variant = "AnomalyPromiscuous" -> 1700
      [] value.variant = "AnomalyAbend" -> 1701
      [] value.variant = "AnomalyLink" -> 1702
      [] value.variant = "AnomalyCreat" -> 1703
      [] value.variant = "IntegrityData" -> 1800
      [] value.variant = "IntegrityMetadata" -> 1801
      [] value.variant = "IntegrityStatus" -> 1802
      [] value.variant = "IntegrityHash" -> 1803
      [] value.variant = "IntegrityPcr" -> 1804
      [] value.variant = "IntegrityRule" -> 1805
      [] value.variant = "IntegrityEvmXattr" -> 1806
      [] value.variant = "IntegrityPolicyRule" -> 1807
      [] value.variant = "CryptoKeyUser" -> 2000
      [] value.variant = "Unknown" -> value.v

\* Codes that have a named variant: the right-hand sides of From<RecordType>
\* for u16 on the payload-free variants (record.rs:412-510)
NamedCodes == {U16FromRecordType(Named(n)) : n \in VariantNames \ {"Unknown"}}

(***************************************************************************)
(* State.                                                                  *)
(***************************************************************************)
VARIABLES
    \* taxonomy round trip (record.rs:521-532)
    code,           \* the u16 handed to RecordType::from
    record_type,    \* RecordType::from(code)
    num,            \* u16::from(record_type)
    round_trip,     \* RecordType::from(num)
    taxPc,          \* "start", "symbol", "code"; "type", "type_code", "type_back"
    \* netlink transport (audit_transport/netlink.rs)
    nlPc,           \* position of netlink_listener_task
    nlPending,      \* raw_event held by a send that has not completed
    kernelMsgs,     \* messages the netlink stream has yielded so far
    transportChan,  \* buffer of the mpsc channel created in new()
    rxOpen,         \* NetlinkAuditTransport (and its Receiver) not yet dropped
    handed,         \* history: raw events handed to sender.send, in order
    enqueued,       \* history: raw events the channel accepted, in order
    received,       \* history: raw events returned by recv(), in order
    \* pipeline (main.rs)
    mainPc,         \* position of main()
    taskPc,         \* position of each spawned stage task
    aborted,        \* JoinHandle::abort() has been called on the stage task
    idleTicks,      \* completed 100 ms sleeps of the correlator stage since the
                    \* last record was handed to the correlator (saturating)
    \* correlator (correlator.rs)
    curr_timestamp, \* AuditRecordCorrelator.curr_timestamp (seconds since the epoch)
    curr_serial,    \* AuditRecordCorrelator.curr_serial
    curr_records,   \* AuditRecordCorrelator.curr_records
    delivered,      \* history: records passed to correlate_records, in order
    events,         \* AuditEvents returned by correlate_records so far
    panicked,       \* a call of correlate_records has panicked
    \* parser (parser.rs)
    line,           \* the &str handed to read_to_fields
    fields_result,  \* Result<RecordFields, ParseError> of read_to_fields(line)
    record_result,  \* Result<Record, ParseError> of parse_to_record
    linePc,         \* "start", "fields", "record", "failed"
    file_exists,    \* File::open(filepath) succeeds
    file,           \* the lines BufReader::lines() yields, in file order
    line_no,        \* index of the next item of the lines() iterator
    collected,      \* Records gathered by collect() so far
    file_result,    \* Result<Vec<Record>, ParseError> of parse_log_file
    filePc,         \* "open", "lines", "done"
    \* rendering of captured messages (record_from_source.rs:93-120)
    messages,       \* (message_type, data) of the messages read back, in order
    msg_no,         \* index of the message the loop is at
    record,         \* AuditRecord built for message msg_no
    log_lines,      \* record.to_log() of each message written to log_file
    renderPc,       \* "new", "to_log", "done"
    \* capture and read-back (record_from_source.rs:55-101)
    captured,       \* history: buffers serialized from the message stream, in order
    buffer,         \* the serialized message being written
    cap_file,       \* bytes of the capture file (`file`)
    message_count,  \* message_count
    capPc,          \* position of main() of record_from_source
    cap_stop,       \* how the select! of the capture phase ended
    read_pos,       \* cursor of `file` (index of the next byte, from 1)
    length,         \* length of the frame being read back
    read_back,      \* history: msg_buf of every frame read back, in order
    \* AuditEvent (event.rs)
    event,          \* the AuditEvent under test
    new_from,       \* the record given to new_simple, if the event was built by it
    simple_result,  \* outcome of is_simple on the event: "none" before the call
    compound_result,\* outcome of is_compound on an event with the same records
    evPc            \* "start", "built"

taxVars == <<code, record_type, num, round_trip, taxPc>>

nlVars == <<nlPc, nlPending, kernelMsgs, transportChan, rxOpen, handed, enqueued, received>>

mainVars == <<mainPc, taskPc, aborted, idleTicks>>

corrVars == <<curr_timestamp, curr_serial, curr_records, delivered, events, panicked>>

parseVars == <<line, fields_result, record_result, linePc,
               file_exists, file, line_no, collected, file_result, filePc>>

renderVars == <<messages, msg_no, record, log_lines, renderPc>>

captureVars == <<captured, buffer, cap_file, message_count, capPc, cap_stop,
                 read_pos, length, read_back>>

eventVars == <<event, new_from, simple_result, compound_result, evPc>>

vars == <<taxVars, nlVars, mainVars, corrVars, parseVars, renderVars, captureVars,
          eventVars>>

\* The four stage tasks of main.rs:38-41
Stages == {"transport", "parser", "correlator", "writer"}

\* netlink message types the modelled stream carries: SYSCALL and PROCTITLE
MessageTypes == {1300, 1327}

\* value of nlPending when no send is in progress
NoEvent == [record_type |-> 0, data |-> "none"]

\* RawEventType::from(msg.header.message_type) (netlink.rs:66); the raw
\* record keeps the numeric type code (RawRecord.type_code: u16)
RawEventTypeFrom(message_type) == message_type

\* RawAuditEvent::new(record_type, data) (netlink.rs:69)
RawAuditEvent(record_type_, data) == [record_type |-> record_type_, data |-> data]

\* Values of the variables a specification does not use.
TaxIdle ==
    /\ code = 0
    /\ record_type = Named("GetStatus")
    /\ num = 0
    /\ round_trip = Named("GetStatus")
    /\ taxPc = "idle"

NlIdle ==
    /\ nlPc = "idle"
    /\ nlPending = NoEvent
    /\ kernelMsgs = 0
    /\ transportChan = <<>>
    /\ rxOpen = FALSE
    /\ handed = <<>>
    /\ enqueued = <<>>
    /\ received = <<>>

MainIdle ==
    /\ mainPc = <<"idle", 0>>
    /\ taskPc = [t \in Stages |-> "unspawned"]
    /\ aborted = [t \in Stages |-> FALSE]
    /\ idleTicks = 0

\* AuditRecordCorrelator::new() (correlator.rs:54-60)
CorrelatorNew ==
    /\ curr_timestamp = 0
    /\ curr_serial = 0
    /\ curr_records = <<>>

CorrIdle ==
    /\ CorrelatorNew
    /\ delivered = <<>>
    /\ events = <<>>
    /\ panicked = FALSE

(***************************************************************************)
(* Parser (parser.rs).  A &str is a sequence of one-character strings.     *)
(***************************************************************************)
\* Characters of the lines: two letters, the separators the parser looks
\* for, the double quote of quoted values, and the blank that
\* split_whitespace splits on.
Chars == {"k", "v", "=", ":", "\"", " "}

Lines == UNION {[1..n -> Chars] : n \in 0..MaxLineLen}

\* Result<T, E> (parser.rs:43, 55, 78)
Ok(value) == [tag |-> "Ok", value |-> value]

Err(error) == [tag |-> "Err", error |-> error]

NoResult == [tag |-> "None"]

\* enum ParseError (parser.rs:35-41)
FileNotFound == [kind |-> "FileNotFound"]

FailedToReadLine == [kind |-> "FailedToReadLine"]

InvalidLine(text) == [kind |-> "InvalidLine", text |-> text]

\* HashMap::new() and HashMap::insert (parser.rs:56, 66): a later insert of
\* a key that is present replaces the value held for it
HashMapNew == [key \in {} |-> <<>>]

HashMapInsert(fields, key, value) ==
    [k \in DOMAIN fields \cup {key} |-> IF k = key THEN value ELSE fields[k]]

\* struct RecordFields (parser.rs:30-32)
RecordFields(fields) == [fields |-> fields]

\* crate::record::Record, built by Record::new(fields): "just a wrapper around
\* HashMap" (parser.rs:79, 88-94)
Record(fields) == [fields |-> fields]

\* line.trim().is_empty() (parser.rs:58)
TrimIsEmpty(s) == \A i \in 1..Len(s) : s[i] = " "

\* str::split_whitespace (parser.rs:62): the maximal runs of non-blank
\* characters, in order
RECURSIVE SplitFrom(_, _, _)
SplitFrom(s, part, parts) ==
    IF s = <<>>
    THEN IF part = <<>> THEN parts ELSE Append(parts, part)
    ELSE IF Head(s) = " "
         THEN SplitFrom(Tail(s), <<>>, IF part = <<>> THEN parts ELSE Append(parts, part))
         ELSE SplitFrom(Tail(s), Append(part, Head(s)), parts)

split_whitespace(s) == SplitFrom(s, <<>>, <<>>)

\* find that gives the position of the last occurrence
find_Last(part, ch) ==
    IF \E i \in 1..Len(part) : part[i] = ch
    THEN CHOOSE i \in 1..Len(part) :
             /\ part[i] = ch
             /\ \A j \in (i + 1)..Len(part) : part[j] # ch
    ELSE 0

\* part.find('=') (parser.rs:63): position of the first '=', 0 for None
find(part, ch) ==
    IF \E i \in 1..Len(part) : part[i] = ch
    THEN CHOOSE i \in 1..Len(part) :
             /\ part[i] = ch
             /\ \A j \in 1..(i - 1) : part[j] # ch
    ELSE 0

\* The for loop of read_to_fields without the arm that skips a lone ':'
RECURSIVE ReadParts_ColonIsInvalid(_, _, _)
ReadParts_ColonIsInvalid(parts, fields, original) ==
    IF parts = <<>>
    THEN Ok(RecordFields(fields))
    ELSE LET part == Head(parts)
             eq_pos == find(part, "=")
         IN IF eq_pos # 0
            THEN LET key == SubSeq(part, 1, eq_pos - 1)
                     value == SubSeq(part, eq_pos + 1, Len(part))
                 IN ReadParts_ColonIsInvalid(Tail(parts),
                                             HashMapInsert(fields, key, value), original)
            ELSE Err(InvalidLine(original))

\* the for loop of read_to_fields (parser.rs:62-73)
RECURSIVE ReadParts(_, _, _)
ReadParts(parts, fields, original) ==
    IF parts = <<>>
    THEN Ok(RecordFields(fields))
    ELSE LET part == Head(parts)
             eq_pos == find(part, "=")
         IN IF eq_pos # 0
            THEN LET key == SubSeq(part, 1, eq_pos - 1)
                     value == SubSeq(part, eq_pos + 1, Len(part))
                 IN ReadParts(Tail(parts), HashMapInsert(fields, key, value), original)
            ELSE IF part = <<":">>
                 THEN ReadParts(Tail(parts), fields, original)
                 ELSE Err(InvalidLine(original))

\* read_to_fields without the early return for a blank line
read_to_fields_NoBlankCheck(s) == ReadParts(split_whitespace(s), HashMapNew, s)

\* fn read_to_fields (parser.rs:55-76)
read_to_fields(s) ==
    IF TrimIsEmpty(s)
    THEN Err(InvalidLine(s))
    ELSE ReadParts(split_whitespace(s), HashMapNew, s)

\* fn parse_to_record (parser.rs:78-80)
parse_to_record(record_fields) == Ok(Record(record_fields.fields))

ParseIdle ==
    /\ line = <<>>
    /\ fields_result = NoResult
    /\ record_result = NoResult
    /\ linePc = "idle"
    /\ file_exists = FALSE
    /\ file = <<>>
    /\ line_no = 0
    /\ collected = <<>>
    /\ file_result = NoResult
    /\ filePc = "idle"

\* AuditRecord::new(_type, data) (record.rs:28-33)
AuditRecord(type_, data) == [record_type |-> type_, data |-> data]

\* to_log without the blank that separates the symbol from "msg="
to_log_NoSeparator(self) == "type=" \o as_audit_str(self.record_type) \o "msg=" \o self.data

\* AuditRecord::to_log (record.rs:35-37)
to_log(self) == "type=" \o as_audit_str(self.record_type) \o " msg=" \o self.data

NoRecord == AuditRecord(Named("GetStatus"), "")

RenderIdle ==
    /\ messages = <<>>
    /\ msg_no = 0
    /\ record = NoRecord
    /\ log_lines = <<>>
    /\ renderPc = "idle"

\* AuditEvent { records } (event.rs:4-8)
AuditEvent(records) == [records |-> records]

EventIdle ==
    /\ event = AuditEvent(<<>>)
    /\ new_from = NoRecord
    /\ simple_result = "none"
    /\ compound_result = "none"
    /\ evPc = "idle"

CaptureIdle ==
    /\ captured = <<>>
    /\ buffer = <<>>
    /\ cap_file = <<>>
    /\ message_count = 0
    /\ capPc = "idle"
    /\ cap_stop = "none"
    /\ read_pos = 1
    /\ length = 0
    /\ read_back = <<>>

(***************************************************************************)
(* SpecTaxonomy: the conversions of record.rs applied to every u16, in the *)
(* order of the round trip of test_record_to_log (record.rs:523-531).      *)
(***************************************************************************)
RecordTypeValues == {Named(n) : n \in VariantNames \ {"Unknown"}} \cup {Unknown(c) : c \in U16}

TaxInit ==
    /\ \/ /\ code \in U16
          /\ record_type = Named("GetStatus")
          /\ taxPc = "start"
       \/ /\ code = 0
          /\ record_type \in RecordTypeValues
          /\ taxPc = "type"
    /\ num = 0
    /\ round_trip = Named("GetStatus")
    /\ NlIdle
    /\ MainIdle
    /\ CorrIdle
    /\ ParseIdle
    /\ RenderIdle
    /\ CaptureIdle
    /\ EventIdle

\* let record_type = RecordType::from(code);  (record.rs:523)
ToSymbol ==
    /\ taxPc = "start"
    /\ record_type' = RecordTypeFromU16(code)
    /\ taxPc' = "symbol"
    /\ UNCHANGED <<code, num, round_trip, nlVars, mainVars, corrVars, parseVars, renderVars, captureVars, eventVars>>

\* let num: u16 = record_type.into();  (record.rs:529)
ToCode ==
    /\ taxPc = "symbol"
    /\ num' = U16FromRecordType(record_type)
    /\ taxPc' = "code"
    /\ UNCHANGED <<code, record_type, round_trip, nlVars, mainVars, corrVars, parseVars, renderVars, captureVars, eventVars>>

\* let num: u16 = record_type.into();  (record.rs:529), for a RecordType value
\* that was not obtained from a code
TypeToCode ==
    /\ taxPc = "type"
    /\ num' = U16FromRecordType(record_type)
    /\ taxPc' = "type_code"
    /\ UNCHANGED <<code, record_type, round_trip, nlVars, mainVars, corrVars, parseVars, renderVars, captureVars, eventVars>>

\* RecordType::from(num)  (record.rs:530)
CodeToType ==
    /\ taxPc = "type_code"
    /\ round_trip' = RecordTypeFromU16(num)
    /\ taxPc' = "type_back"
    /\ UNCHANGED <<code, record_type, num, nlVars, mainVars, corrVars, parseVars, renderVars, captureVars, eventVars>>

TaxNext == ToSymbol \/ ToCode \/ TypeToCode \/ CodeToType

SpecTaxonomy == TaxInit /\ [][TaxNext]_vars

(***************************************************************************)
(* audit_transport/netlink.rs: NetlinkAuditTransport.                      *)
(* new() creates a bounded channel and spawns netlink_listener_task with   *)
(* its Sender; the Receiver stays in the NetlinkAuditTransport.            *)
(***************************************************************************)
\* State right after NetlinkAuditTransport::new() (netlink.rs:19-30)
NlInit ==
    /\ nlPc = "connect"
    /\ nlPending = NoEvent
    /\ kernelMsgs = 0
    /\ transportChan = <<>>
    /\ rxOpen = TRUE
    /\ handed = <<>>
    /\ enqueued = <<>>
    /\ received = <<>>

\* audit::new_connection() (netlink.rs:43-48): on success the connection is
\* spawned; on failure the task returns Err, which new() prints to stderr
\* (netlink.rs:24-26).
NlConnect ==
    /\ nlPc = "connect"
    /\ nlPc' \in {"enable", "failed"}
    /\ UNCHANGED <<nlPending, kernelMsgs, transportChan, rxOpen, handed, enqueued, received>>
    /\ UNCHANGED <<taxVars, parseVars, renderVars, captureVars, eventVars, mainVars, corrVars>>

\* handle.enable_events().await (netlink.rs:51-56)
NlEnable ==
    /\ nlPc = "enable"
    /\ nlPc' \in {"next", "failed"}
    /\ UNCHANGED <<nlPending, kernelMsgs, transportChan, rxOpen, handed, enqueued, received>>
    /\ UNCHANGED <<taxVars, parseVars, renderVars, captureVars, eventVars, mainVars, corrVars>>

\* messages.next() yields an AuditMessage::Event: the raw event is built and
\* handed to sender.send (netlink.rs:59-72)
NlNextEvent ==
    /\ nlPc = "next"
    /\ kernelMsgs < MaxKernelMsgs
    /\ \E message_type \in MessageTypes :
          LET raw_event == RawAuditEvent(RawEventTypeFrom(message_type), "kvs")
          IN  /\ nlPending' = raw_event
              /\ handed' = Append(handed, raw_event)
    /\ nlPc' = "send"
    /\ kernelMsgs' = kernelMsgs + 1
    /\ UNCHANGED <<transportChan, rxOpen, enqueued, received>>
    /\ UNCHANGED <<taxVars, parseVars, renderVars, captureVars, eventVars, mainVars, corrVars>>

\* messages.next() yields a message that is not an audit event: both
\* `if let` fail and the loop goes on (netlink.rs:60-61)
NlNextOther ==
    /\ nlPc = "next"
    /\ kernelMsgs < MaxKernelMsgs
    /\ kernelMsgs' = kernelMsgs + 1
    /\ UNCHANGED <<nlPc, nlPending, transportChan, rxOpen, handed, enqueued, received>>
    /\ UNCHANGED <<taxVars, parseVars, renderVars, captureVars, eventVars, mainVars, corrVars>>

\* messages.next() yields None: the while loop ends and the task returns
\* Ok(()) (netlink.rs:59, 78)
NlNextEnd ==
    /\ nlPc = "next"
    /\ nlPc' = "finished"
    /\ UNCHANGED <<nlPending, kernelMsgs, transportChan, rxOpen, handed, enqueued, received>>
    /\ UNCHANGED <<taxVars, parseVars, renderVars, captureVars, eventVars, mainVars, corrVars>>

\* Variant of the send that gives up on a full queue instead of waiting
\* (try_send semantics): the raw event is discarded.
NlSend_DropWhenFull ==
    /\ nlPc = "send"
    /\ rxOpen
    /\ IF Len(transportChan) < ChannelCapacity
       THEN /\ transportChan' = Append(transportChan, nlPending)
            /\ enqueued' = Append(enqueued, nlPending)
       ELSE UNCHANGED <<transportChan, enqueued>>
    /\ nlPending' = NoEvent
    /\ nlPc' = "next"
    /\ UNCHANGED <<kernelMsgs, rxOpen, handed, received>>
    /\ UNCHANGED <<taxVars, parseVars, renderVars, captureVars, eventVars, mainVars, corrVars>>

\* sender.send(raw_event).await completes with Ok (netlink.rs:72): possible
\* only while the Receiver is alive and the buffer has a free slot; until
\* then the task stays suspended in the send with the event in hand.
NlSend ==
    /\ nlPc = "send"
    /\ rxOpen
    /\ Len(transportChan) < ChannelCapacity
    /\ transportChan' = Append(transportChan, nlPending)
    /\ enqueued' = Append(enqueued, nlPending)
    /\ nlPending' = NoEvent
    /\ nlPc' = "next"
    /\ UNCHANGED <<kernelMsgs, rxOpen, handed, received>>
    /\ UNCHANGED <<taxVars, parseVars, renderVars, captureVars, eventVars, mainVars, corrVars>>

\* sender.send(raw_event).await completes with Err because the Receiver is
\* gone: break, then Ok(()) (netlink.rs:72-74, 78)
NlSendErr ==
    /\ nlPc = "send"
    /\ ~rxOpen
    /\ nlPc' = "rejected"
    /\ UNCHANGED <<nlPending, kernelMsgs, transportChan, rxOpen, handed, enqueued, received>>
    /\ UNCHANGED <<taxVars, parseVars, renderVars, captureVars, eventVars, mainVars, corrVars>>

\* The runtime shuts down and drops the listener task where it waits.  The
\* runtime outlives the future that owns the transport (main.rs:17-64), so
\* the NetlinkAuditTransport has been dropped by then.
NlCancel ==
    /\ ~rxOpen
    /\ nlPc \in {"connect", "enable", "next", "send"}
    /\ nlPc' = "cancelled"
    /\ nlPending' = NoEvent
    /\ UNCHANGED <<kernelMsgs, transportChan, rxOpen, handed, enqueued, received>>
    /\ UNCHANGED <<taxVars, parseVars, renderVars, captureVars, eventVars, mainVars, corrVars>>

NlNext ==
    \/ NlConnect
    \/ NlEnable
    \/ NlNextEvent
    \/ NlNextOther
    \/ NlNextEnd
    \/ NlSend
    \/ NlSendErr

\* NetlinkAuditTransport::recv (netlink.rs:34-36) returning Some(event): the
\* oldest buffered event leaves the channel.  On an empty buffer recv waits
\* (or returns None once the Sender is gone) and changes nothing.
TransportRecv ==
    /\ rxOpen
    /\ transportChan # <<>>
    /\ received' = Append(received, Head(transportChan))
    /\ transportChan' = Tail(transportChan)
    /\ UNCHANGED <<nlPc, nlPending, kernelMsgs, rxOpen, handed, enqueued>>
    /\ UNCHANGED <<taxVars, parseVars, renderVars, captureVars, eventVars, mainVars, corrVars>>

\* The owner drops the NetlinkAuditTransport: its Receiver closes the
\* channel and the events still buffered are dropped with it.
TransportDrop ==
    /\ rxOpen
    /\ rxOpen' = FALSE
    /\ transportChan' = <<>>
    /\ UNCHANGED <<nlPc, nlPending, kernelMsgs, handed, enqueued, received>>
    /\ UNCHANGED <<taxVars, parseVars, renderVars, captureVars, eventVars, mainVars, corrVars>>

(***************************************************************************)
(* SpecTransport: a NetlinkAuditTransport whose owner calls recv() and     *)
(* eventually drops it, with the listener task running concurrently until  *)
(* it ends or the runtime shuts down.                                      *)
(***************************************************************************)
TransportInit ==
    /\ NlInit
    /\ TaxIdle
    /\ MainIdle
    /\ CorrIdle
    /\ ParseIdle
    /\ RenderIdle
    /\ CaptureIdle
    /\ EventIdle

TransportNext ==
    \/ NlNext
    \/ TransportRecv
    \/ TransportDrop
    \/ NlCancel

SpecTransport == TransportInit /\ [][TransportNext]_vars

(***************************************************************************)
(* main.rs: the pipeline.  The model starts where the components and the   *)
(* three stage-to-stage channels exist (main.rs:24-33) and the listener    *)
(* task spawned by NetlinkAuditTransport::new() is running.  The three     *)
(* channels of main.rs:31-33 never hold an item (no stage task sends), so  *)
(* they carry no state here.  (AuditLogWriter::new, writer.rs:18-20, is    *)
(* todo!(); the model takes the construction of main.rs:27 as returned.)   *)
(***************************************************************************)
MainInit ==
    /\ mainPc = <<"spawn", 1>>
    /\ taskPc = [t \in Stages |-> "unspawned"]
    /\ aborted = [t \in Stages |-> FALSE]
    /\ idleTicks = 0

\* Order of the spawn_*_task calls (main.rs:38-41) and of the abort() calls
\* (main.rs:55-58)
StageOrder == <<"transport", "parser", "correlator", "writer">>

\* tokio::spawn(async move { loop { .. } }): the new task starts at the top
\* of its loop
Spawned(t) == [taskPc EXCEPT ![t] = "ready"]

\* spawn_transport_task(transport, raw_audit_tx) (main.rs:38, 66-81).  The
\* async block names neither `transport` nor `sender`, so they are not moved
\* into the task: both are dropped when the function returns.  Dropping the
\* only Arc drops the NetlinkAuditTransport and with it the Receiver and the
\* events buffered in its channel.
MainSpawnTransport ==
    /\ mainPc = <<"spawn", 1>>
    /\ taskPc' = Spawned("transport")
    /\ rxOpen' = FALSE
    /\ transportChan' = <<>>
    /\ mainPc' = <<"spawn", 2>>
    /\ UNCHANGED <<aborted, idleTicks, nlPc, nlPending, kernelMsgs, handed, enqueued, received>>
    /\ UNCHANGED <<taxVars, parseVars, renderVars, captureVars, eventVars, corrVars>>

\* spawn_parser_task(parser, raw_audit_rx, parsed_audit_tx) (main.rs:39,
\* 83-94): the arguments are dropped at return, the task only loops
MainSpawnParser ==
    /\ mainPc = <<"spawn", 2>>
    /\ taskPc' = Spawned("parser")
    /\ mainPc' = <<"spawn", 3>>
    /\ UNCHANGED <<aborted, idleTicks, nlVars, taxVars, parseVars, renderVars, captureVars, eventVars, corrVars>>

\* spawn_correlator_task(correlator, parsed_audit_rx, correlated_event_tx)
\* (main.rs:40, 96-107)
MainSpawnCorrelator ==
    /\ mainPc = <<"spawn", 3>>
    /\ taskPc' = Spawned("correlator")
    /\ mainPc' = <<"spawn", 4>>
    /\ UNCHANGED <<aborted, idleTicks, nlVars, taxVars, parseVars, renderVars, captureVars, eventVars, corrVars>>

\* spawn_writer_task(writer, correlated_event_rx) (main.rs:41, 109-123);
\* main then waits in the select! of main.rs:48
MainSpawnWriter ==
    /\ mainPc = <<"spawn", 4>>
    /\ taskPc' = Spawned("writer")
    /\ mainPc' = <<"select", 0>>
    /\ UNCHANGED <<aborted, idleTicks, nlVars, taxVars, parseVars, renderVars, captureVars, eventVars, corrVars>>

\* signal::ctrl_c() completes: "Received SIGINT, shutting down"
\* (main.rs:48-52)
MainCtrlC ==
    /\ mainPc = <<"select", 0>>
    /\ mainPc' = <<"abort", 1>>
    /\ UNCHANGED <<taskPc, aborted, idleTicks, nlVars, taxVars, parseVars, renderVars, captureVars, eventVars, corrVars>>

\* JoinHandle::abort(): the task is marked for cancellation
StageAbort(t) == [aborted EXCEPT ![t] = TRUE]

\* transport_task.abort(); parser_task.abort(); correlator_task.abort();
\* writer_task.abort(); (main.rs:55-58), one call per step
MainAbort ==
    /\ \E i \in 1..4 :
          /\ mainPc = <<"abort", i>>
          /\ aborted' = StageAbort(StageOrder[i])
          /\ mainPc' = IF i < 4 THEN <<"abort", i + 1>> ELSE <<"join", 0>>
    /\ UNCHANGED <<taskPc, idleTicks, nlVars, taxVars, parseVars, renderVars, captureVars, eventVars, corrVars>>

\* tokio::join!(transport_task, parser_task, correlator_task, writer_task)
\* (main.rs:61) completes once all four tasks have ended
MainJoin ==
    /\ mainPc = <<"join", 0>>
    /\ \A t \in Stages : taskPc[t] = "cancelled"
    /\ mainPc' = <<"return", 0>>
    /\ UNCHANGED <<taskPc, aborted, idleTicks, nlVars, taxVars, parseVars, renderVars, captureVars, eventVars, corrVars>>

\* Ok(()) (main.rs:63): main returns and the runtime shuts down, which
\* cancels the listener task at its await if it is still running
MainReturn ==
    /\ mainPc = <<"return", 0>>
    /\ mainPc' = <<"returned", 0>>
    /\ nlPc' = IF nlPc \in {"failed", "finished", "rejected"} THEN nlPc ELSE "cancelled"
    /\ nlPending' = IF nlPc = "rejected" THEN nlPending ELSE NoEvent
    /\ UNCHANGED <<taskPc, aborted, idleTicks, kernelMsgs, transportChan, rxOpen, handed,
                   enqueued, received>>
    /\ UNCHANGED <<taxVars, parseVars, renderVars, captureVars, eventVars, corrVars>>

\* Body of every stage loop up to its await: println!(..), then
\* sleep(Duration::from_millis(100)) starts (main.rs:73-74, 90-91, 103-104,
\* 115-116).  No stage receives from or sends to a channel.
StagePrint(t) ==
    /\ taskPc[t] = "ready"
    /\ taskPc' = [taskPc EXCEPT ![t] = "sleep"]
    /\ UNCHANGED <<mainPc, aborted, idleTicks, nlVars, taxVars, parseVars, renderVars, captureVars, eventVars, corrVars>>

StageWake_IgnoresAbort(t) ==
    /\ taskPc[t] = "sleep"
    /\ taskPc' = [taskPc EXCEPT ![t] = "ready"]
    /\ idleTicks' = IF t = "correlator" /\ idleTicks < IdleLimit
                    THEN idleTicks + 1 ELSE idleTicks
    /\ UNCHANGED <<mainPc, aborted, nlVars, taxVars, parseVars, renderVars, captureVars, eventVars, corrVars>>

\* The sleep of a task that is not marked for cancellation completes and
\* the loop starts over
StageWake(t) ==
    /\ taskPc[t] = "sleep"
    /\ ~aborted[t]
    /\ taskPc' = [taskPc EXCEPT ![t] = "ready"]
    /\ idleTicks' = IF t = "correlator" /\ idleTicks < IdleLimit
                    THEN idleTicks + 1 ELSE idleTicks
    /\ UNCHANGED <<mainPc, aborted, nlVars, taxVars, parseVars, renderVars, captureVars, eventVars, corrVars>>

\* An aborted task is cancelled the next time it is scheduled: its future
\* is dropped at the await (or before its first poll)
StageCancel(t) ==
    /\ aborted[t]
    /\ taskPc[t] \in {"ready", "sleep"}
    /\ taskPc' = [taskPc EXCEPT ![t] = "cancelled"]
    /\ UNCHANGED <<mainPc, aborted, idleTicks, nlVars, taxVars, parseVars, renderVars, captureVars, eventVars, corrVars>>

(***************************************************************************)
(* Spec: main() from the first spawn to its return, with the listener      *)
(* task and the four stage tasks interleaved.                              *)
(***************************************************************************)
Init ==
    /\ MainInit
    /\ NlInit
    /\ TaxIdle
    /\ CorrIdle
    /\ ParseIdle
    /\ RenderIdle
    /\ CaptureIdle
    /\ EventIdle

Next ==
    \/ MainSpawnTransport
    \/ MainSpawnParser
    \/ MainSpawnCorrelator
    \/ MainSpawnWriter
    \/ MainCtrlC
    \/ MainAbort
    \/ MainJoin
    \/ MainReturn
    \/ \E t \in Stages : StagePrint(t)
    \/ \E t \in Stages : StageWake(t)
    \/ \E t \in Stages : StageCancel(t)
    \/ NlNext

Spec == Init /\ [][Next]_vars

(***************************************************************************)
(* SpecLive: Spec with the scheduling the tokio runtime provides: main()   *)
(* runs on when it can, and every spawned stage task is polled when it is  *)
(* ready, its timer has fired or it has been aborted.  Nothing is assumed  *)
(* about SIGINT (MainCtrlC) or about the kernel and the listener task.     *)
(***************************************************************************)
MainStep ==
    \/ MainSpawnTransport
    \/ MainSpawnParser
    \/ MainSpawnCorrelator
    \/ MainSpawnWriter
    \/ MainAbort
    \/ MainJoin
    \/ MainReturn

StageStep(t) == StagePrint(t) \/ StageWake(t) \/ StageCancel(t)

Fairness ==
    /\ WF_vars(MainStep)
    /\ \A t \in Stages : WF_vars(StageStep(t))

SpecLive == Init /\ [][Next]_vars /\ Fairness

(***************************************************************************)
(* correlator.rs: AuditRecordCorrelator, together with the pipeline stage  *)
(* that owns it (spawn_correlator_task, main.rs:96-107).                   *)
(***************************************************************************)
\* Type codes of the records of the model: USER_FIRST_MSG (below the first
\* multi-record event type), SYSCALL, PATH, CWD and PROCTITLE
RecordCodes == {1100, 1300, 1302, 1307, 1327}

\* Record texts of the model; they differ in the serial of the preamble
RecordData == {"audit(100.100:5):", "audit(100.100:7):"}

AuditRecords == {AuditRecord(RecordTypeFromU16(c), d) : c \in RecordCodes, d \in RecordData}

\* Vec<AuditRecord> arguments of correlate_records: 1 to MaxDelivered records
RecordBuffers == UNION {[1..n -> AuditRecords] : n \in 1..MaxDelivered}

\* AuditRecordCorrelator::correlate_records (correlator.rs:62-68): the body
\* is todo!(), so every call panics and no Vec<AuditEvent> is returned.
correlate_records(record_buffer) == [returned |-> FALSE, events |-> <<>>]

\* A caller hands record_buffer to correlate_records while the correlator
\* stage is alive.  correlate_records has no self parameter: the fields of
\* the AuditRecordCorrelator are never written.
CorrelateRecords ==
    /\ taskPc["correlator"] \in {"ready", "sleep"}
    /\ \E n \in 1..(MaxDelivered - Len(delivered)) :
       \E record_buffer \in [1..n -> AuditRecords] :
          /\ record_buffer \in RecordBuffers
          /\ delivered' = delivered \o record_buffer
          /\ LET result == correlate_records(record_buffer)
             IN  /\ events' = IF result.returned THEN events \o result.events ELSE events
                 /\ panicked' = (panicked \/ ~result.returned)
    /\ idleTicks' = 0
    /\ UNCHANGED <<curr_timestamp, curr_serial, curr_records>>
    /\ UNCHANGED <<mainPc, taskPc, aborted, nlVars, taxVars, parseVars, renderVars, captureVars, eventVars>>

\* correlator_task.abort() (main.rs:57)
CorrelatorAbort ==
    /\ ~aborted["correlator"]
    /\ aborted' = StageAbort("correlator")
    /\ UNCHANGED <<mainPc, taskPc, idleTicks, nlVars, taxVars, parseVars, renderVars, captureVars, eventVars, corrVars>>

(***************************************************************************)
(* SpecCorrelator: a new AuditRecordCorrelator, its stage task looping,    *)
(* records handed to correlate_records, and the abort of the stage task.   *)
(***************************************************************************)
CorrelatorInit ==
    /\ CorrelatorNew
    /\ delivered = <<>>
    /\ events = <<>>
    /\ panicked = FALSE
    /\ mainPc = <<"idle", 0>>
    /\ taskPc = [t \in Stages |-> IF t = "correlator" THEN "ready" ELSE "unspawned"]
    /\ aborted = [t \in Stages |-> FALSE]
    /\ idleTicks = 0
    /\ NlIdle
    /\ TaxIdle
    /\ ParseIdle
    /\ RenderIdle
    /\ CaptureIdle
    /\ EventIdle

CorrelatorNext ==
    \/ CorrelateRecords
    \/ StagePrint("correlator")
    \/ StageWake("correlator")
    \/ CorrelatorAbort
    \/ StageCancel("correlator")

SpecCorrelator == CorrelatorInit /\ [][CorrelatorNext]_vars

(***************************************************************************)
(* SpecLine: the two closures parse_log_file applies to one line           *)
(* (parser.rs:50-51), for every line of at most MaxLineLen characters.     *)
(***************************************************************************)
lineVars == <<line, fields_result, record_result, linePc>>

fileVars == <<file_exists, file, line_no, collected, file_result, filePc>>

FileIdle ==
    /\ file_exists = FALSE
    /\ file = <<>>
    /\ line_no = 0
    /\ collected = <<>>
    /\ file_result = NoResult
    /\ filePc = "idle"

LineInit ==
    /\ line \in Lines
    /\ fields_result = NoResult
    /\ record_result = NoResult
    /\ linePc = "start"
    /\ FileIdle
    /\ TaxIdle
    /\ NlIdle
    /\ MainIdle
    /\ CorrIdle
    /\ RenderIdle
    /\ CaptureIdle
    /\ EventIdle

\* read_to_fields(&line?)  (parser.rs:50)
ReadToFields ==
    /\ linePc = "start"
    /\ fields_result' = read_to_fields(line)
    /\ linePc' = "fields"
    /\ UNCHANGED <<line, record_result, fileVars, taxVars, nlVars, mainVars, corrVars, renderVars, captureVars, eventVars>>

\* parse_to_record(fields?) on Ok(fields)  (parser.rs:51)
ParseToRecord ==
    /\ linePc = "fields"
    /\ fields_result.tag = "Ok"
    /\ record_result' = parse_to_record(fields_result.value)
    /\ linePc' = "record"
    /\ UNCHANGED <<line, fields_result, fileVars, taxVars, nlVars, mainVars, corrVars, renderVars, captureVars, eventVars>>

\* parse_to_record(fields?) on Err(e): the ? returns Err(e) from the closure
\* and parse_to_record is not called  (parser.rs:51)
ParseToRecordErr ==
    /\ linePc = "fields"
    /\ fields_result.tag = "Err"
    /\ record_result' = Err(fields_result.error)
    /\ linePc' = "failed"
    /\ UNCHANGED <<line, fields_result, fileVars, taxVars, nlVars, mainVars, corrVars, renderVars, captureVars, eventVars>>

LineNext == ReadToFields \/ ParseToRecord \/ ParseToRecordErr

SpecLine == LineInit /\ [][LineNext]_vars

(***************************************************************************)
(* SpecLogFile: parse_log_file (parser.rs:43-53) on a file of at most      *)
(* MaxFileLines lines.  collect() pulls one item of the iterator chain at  *)
(* a time and stops at the first Err.                                      *)
(***************************************************************************)
\* Line texts of the files: "k=v", "v=k", ": v=", the quoted value k="v",
\* the value with a second '=' v==k (well-formed) and "k" (a token
\* without '=')
FileLineTexts ==
    { <<"k", "=", "v">>, <<"v", "=", "k">>, <<":", " ", "v", "=">>,
      <<"k", "=", "\"", "v", "\"">>, <<"v", "=", "=", "k">>, <<"k">> }

\* An item of BufReader::lines() (parser.rs:48): a line that was read, or
\* an io::Error
FileItems ==
    {[readable |-> TRUE, text |-> t] : t \in FileLineTexts}
        \cup {[readable |-> FALSE, text |-> <<>>]}

Files == UNION {[1..n -> FileItems] : n \in 0..MaxFileLines}

FileInit ==
    /\ file_exists \in BOOLEAN
    /\ file \in Files
    /\ line_no = 1
    /\ collected = <<>>
    /\ file_result = NoResult
    /\ filePc = "open"
    /\ line = <<>>
    /\ fields_result = NoResult
    /\ record_result = NoResult
    /\ linePc = "idle"
    /\ TaxIdle
    /\ NlIdle
    /\ MainIdle
    /\ CorrIdle
    /\ RenderIdle
    /\ CaptureIdle
    /\ EventIdle

\* File::open(filepath) succeeded  (parser.rs:44-45)
FileOpen ==
    /\ filePc = "open"
    /\ file_exists
    /\ filePc' = "lines"
    /\ UNCHANGED <<file_exists, file, line_no, collected, file_result,
                   lineVars, taxVars, nlVars, mainVars, corrVars, renderVars, captureVars, eventVars>>

\* File::open(filepath).map_err(|_| ParseError::FileNotFound)?  (parser.rs:44)
FileOpenErr ==
    /\ filePc = "open"
    /\ ~file_exists
    /\ file_result' = Err(FileNotFound)
    /\ filePc' = "done"
    /\ UNCHANGED <<file_exists, file, line_no, collected,
                   lineVars, taxVars, nlVars, mainVars, corrVars, renderVars, captureVars, eventVars>>

\* The chain of parser.rs:48-51 applied to item line_no of lines()
LineItemResult(item) ==
    IF ~item.readable
    THEN Err(FailedToReadLine)
    ELSE LET fields == read_to_fields(item.text)
         IN IF fields.tag = "Err"
            THEN Err(fields.error)
            ELSE parse_to_record(fields.value)

\* collect() receives Ok(record) and keeps it  (parser.rs:47-52)
FileLineOk ==
    /\ filePc = "lines"
    /\ line_no <= Len(file)
    /\ LineItemResult(file[line_no]).tag = "Ok"
    /\ collected' = Append(collected, LineItemResult(file[line_no]).value)
    /\ line_no' = line_no + 1
    /\ UNCHANGED <<file_exists, file, file_result, filePc,
                   lineVars, taxVars, nlVars, mainVars, corrVars, renderVars, captureVars, eventVars>>

\* collect() receives Err(e): it stops, drops the Records gathered so far
\* and parse_log_file returns Err(e)  (parser.rs:47-52)
FileLineErr ==
    /\ filePc = "lines"
    /\ line_no <= Len(file)
    /\ LineItemResult(file[line_no]).tag = "Err"
    /\ file_result' = Err(LineItemResult(file[line_no]).error)
    /\ collected' = <<>>
    /\ filePc' = "done"
    /\ UNCHANGED <<file_exists, file, line_no,
                   lineVars, taxVars, nlVars, mainVars, corrVars, renderVars, captureVars, eventVars>>

\* lines() is exhausted: collect() returns Ok(records)  (parser.rs:52)
FileCollect ==
    /\ filePc = "lines"
    /\ line_no > Len(file)
    /\ file_result' = Ok(collected)
    /\ filePc' = "done"
    /\ UNCHANGED <<file_exists, file, line_no, collected,
                   lineVars, taxVars, nlVars, mainVars, corrVars, renderVars, captureVars, eventVars>>

LogFileNext == FileOpen \/ FileOpenErr \/ FileLineOk \/ FileLineErr \/ FileCollect

SpecLogFile == FileInit /\ [][LogFileNext]_vars

(***************************************************************************)
(* SpecRender: the loop of record_from_source.rs:93-120 that builds an     *)
(* AuditRecord from each captured message and writes its legacy line.      *)
(***************************************************************************)
\* header.message_type of the messages: SYSCALL, PATH, and two codes (1301,
\* 1308) without a named variant
RenderCodes == {1300, 1301, 1302, 1308}

\* kvs.to_string() of the messages (record_from_source.rs:106-112)
RenderData == {"example data", "audit(100.100:5): a=1"}

RenderMessages == [message_type : RenderCodes, data : RenderData]

\* message_count of record_from_source.rs:93
MessageCount == 2

RenderInit ==
    /\ messages \in [1..MessageCount -> RenderMessages]
    /\ msg_no = 1
    /\ record = NoRecord
    /\ log_lines = <<>>
    /\ renderPc = "new"
    /\ TaxIdle
    /\ NlIdle
    /\ MainIdle
    /\ CorrIdle
    /\ ParseIdle
    /\ CaptureIdle
    /\ EventIdle

\* let record = AuditRecord::new(RecordType::from(message_type), data);
\* (record_from_source.rs:115-118)
RenderNew ==
    /\ renderPc = "new"
    /\ msg_no <= Len(messages)
    /\ record' = AuditRecord(RecordTypeFromU16(messages[msg_no].message_type),
                             messages[msg_no].data)
    /\ renderPc' = "to_log"
    /\ UNCHANGED <<messages, msg_no, log_lines,
                   taxVars, nlVars, mainVars, corrVars, parseVars, captureVars, eventVars>>

\* log_file.write_all((record.to_log() + "\n")...)  (record_from_source.rs:119)
RenderToLog ==
    /\ renderPc = "to_log"
    /\ log_lines' = Append(log_lines, to_log(record))
    /\ msg_no' = msg_no + 1
    /\ renderPc' = IF msg_no = Len(messages) THEN "done" ELSE "new"
    /\ UNCHANGED <<messages, record,
                   taxVars, nlVars, mainVars, corrVars, parseVars, captureVars, eventVars>>

RenderNext == RenderNew \/ RenderToLog

SpecRender == RenderInit /\ [][RenderNext]_vars

(***************************************************************************)
(* SpecCapture: main() of record_from_source (record_from_source.rs:55-101 *)
(* and bin/record_from_source.rs:37-83): the capture phase writes one      *)
(* frame per message, then the file is read back frame by frame.           *)
(***************************************************************************)
\* Byte values of the serialized messages
Bytes == {0, 1}

\* vec![0u8; msg.buffer_len()] after msg.serialize (record_from_source.rs:65-66)
Buffers == UNION {[1..n -> Bytes] : n \in 1..MaxBufferLen}

\* (buffer.len() as u32).to_le_bytes()  (record_from_source.rs:69): the four
\* low-order bytes of the length, least significant first (the cast keeps
\* the length modulo 2^32)
to_le_bytes(len) == [i \in 1..4 |-> (len \div (256^(i - 1))) % 256]

\* u32::from_le_bytes(length_buf) as usize  (record_from_source.rs:97)
from_le_bytes(length_buf) ==
    length_buf[1] + 256 * length_buf[2] + 65536 * length_buf[3] + 16777216 * length_buf[4]

\* let mut message_count = 0; the select! starts  (record_from_source.rs:55-58)
CaptureInit ==
    /\ captured = <<>>
    /\ buffer = <<>>
    /\ cap_file = <<>>
    /\ message_count = 0
    /\ capPc = "next"
    /\ cap_stop = "none"
    /\ read_pos = 1
    /\ length = 0
    /\ read_back = <<>>
    /\ TaxIdle
    /\ NlIdle
    /\ MainIdle
    /\ CorrIdle
    /\ ParseIdle
    /\ RenderIdle
    /\ EventIdle

\* messages.next().await yields a message, which is serialized
\* (record_from_source.rs:63-66)
CapMessage ==
    /\ capPc = "next"
    /\ Len(captured) < MaxCaptured
    /\ \E b \in Buffers :
          /\ buffer' = b
          /\ captured' = Append(captured, b)
    /\ capPc' = "write_len"
    /\ UNCHANGED <<cap_file, message_count, cap_stop, read_pos, length, read_back>>
    /\ UNCHANGED <<taxVars, nlVars, mainVars, corrVars, parseVars, renderVars, eventVars>>

\* file.write_all(&(buffer.len() as u32).to_le_bytes())?  (record_from_source.rs:69)
CapWriteLen ==
    /\ capPc = "write_len"
    /\ cap_file' = cap_file \o to_le_bytes(Len(buffer))
    /\ capPc' = "write_buf"
    /\ UNCHANGED <<captured, buffer, message_count, cap_stop, read_pos, length, read_back>>
    /\ UNCHANGED <<taxVars, nlVars, mainVars, corrVars, parseVars, renderVars, eventVars>>

\* file.write_all(&buffer)?  (record_from_source.rs:70)
CapWriteBuf ==
    /\ capPc = "write_buf"
    /\ cap_file' = cap_file \o buffer
    /\ capPc' = "count"
    /\ UNCHANGED <<captured, buffer, message_count, cap_stop, read_pos, length, read_back>>
    /\ UNCHANGED <<taxVars, nlVars, mainVars, corrVars, parseVars, renderVars, eventVars>>

\* A write_all fails after writing only part of its bytes: the ? ends the
\* async block with Err, which the select! arm discards
\* (record_from_source.rs:69-70, 78-79)
CapWriteErr ==
    /\ capPc \in {"write_len", "write_buf"}
    /\ LET bytes == IF capPc = "write_len" THEN to_le_bytes(Len(buffer)) ELSE buffer
       IN \E n \in 0..(Len(bytes) - 1) : cap_file' = cap_file \o SubSeq(bytes, 1, n)
    /\ capPc' = "stopped"
    /\ cap_stop' = "error"
    /\ UNCHANGED <<captured, buffer, message_count, read_pos, length, read_back>>
    /\ UNCHANGED <<taxVars, nlVars, mainVars, corrVars, parseVars, renderVars, eventVars>>

\* file.flush()?; message_count += 1;  (record_from_source.rs:71-76).
\* flush of a std::fs::File does nothing and returns Ok.
CapCount ==
    /\ capPc = "count"
    /\ message_count' = message_count + 1
    /\ capPc' = "next"
    /\ UNCHANGED <<captured, buffer, cap_file, cap_stop, read_pos, length, read_back>>
    /\ UNCHANGED <<taxVars, nlVars, mainVars, corrVars, parseVars, renderVars, eventVars>>

\* messages.next().await yields None: the loop and the async block end
\* (record_from_source.rs:63, 78-79)
CapStreamEnd ==
    /\ capPc = "next"
    /\ capPc' = "stopped"
    /\ cap_stop' = "end"
    /\ UNCHANGED <<captured, buffer, cap_file, message_count, read_pos, length, read_back>>
    /\ UNCHANGED <<taxVars, nlVars, mainVars, corrVars, parseVars, renderVars, eventVars>>

\* Variant of CapCtrlC in which the capture loop can be dropped at any of
\* its statements, not only at its await
CapCtrlC_AnyStatement ==
    /\ capPc \in {"next", "write_len", "write_buf", "count"}
    /\ capPc' = "stopped"
    /\ cap_stop' = "ctrl_c"
    /\ UNCHANGED <<captured, buffer, cap_file, message_count, read_pos, length, read_back>>
    /\ UNCHANGED <<taxVars, nlVars, mainVars, corrVars, parseVars, renderVars, eventVars>>

\* signal::ctrl_c() completes (record_from_source.rs:59-61): select! drops
\* the capture loop, which is suspended at its only await, messages.next()
CapCtrlC ==
    /\ capPc = "next"
    /\ capPc' = "stopped"
    /\ cap_stop' = "ctrl_c"
    /\ UNCHANGED <<captured, buffer, cap_file, message_count, read_pos, length, read_back>>
    /\ UNCHANGED <<taxVars, nlVars, mainVars, corrVars, parseVars, renderVars, eventVars>>

\* file.seek(SeekFrom::Start(0))?  (record_from_source.rs:91)
VerifySeek ==
    /\ capPc = "stopped"
    /\ read_pos' = 1
    /\ capPc' = "read_len"
    /\ UNCHANGED <<captured, buffer, cap_file, message_count, cap_stop, length, read_back>>
    /\ UNCHANGED <<taxVars, nlVars, mainVars, corrVars, parseVars, renderVars, eventVars>>

\* for i in 0..message_count: file.read_exact(&mut length_buf)?; length =
\* u32::from_le_bytes(length_buf)  (record_from_source.rs:93-97).  read_exact
\* fails when fewer than 4 bytes are left.
VerifyReadLen ==
    /\ capPc = "read_len"
    /\ Len(read_back) < message_count
    /\ IF read_pos + 3 <= Len(cap_file)
       THEN /\ length' = from_le_bytes(SubSeq(cap_file, read_pos, read_pos + 3))
            /\ read_pos' = read_pos + 4
            /\ capPc' = "read_msg"
       ELSE /\ capPc' = "read_failed"
            /\ UNCHANGED <<length, read_pos>>
    /\ UNCHANGED <<captured, buffer, cap_file, message_count, cap_stop, read_back>>
    /\ UNCHANGED <<taxVars, nlVars, mainVars, corrVars, parseVars, renderVars, eventVars>>

\* let mut msg_buf = vec![0u8; length]; file.read_exact(&mut msg_buf)?
\* (record_from_source.rs:100-101).  read_exact fails when fewer than
\* length bytes are left.
VerifyReadMsg ==
    /\ capPc = "read_msg"
    /\ IF read_pos + length - 1 <= Len(cap_file)
       THEN /\ read_back' = Append(read_back, SubSeq(cap_file, read_pos, read_pos + length - 1))
            /\ read_pos' = read_pos + length
            /\ capPc' = "read_len"
       ELSE /\ capPc' = "read_failed"
            /\ UNCHANGED <<read_back, read_pos>>
    /\ UNCHANGED <<captured, buffer, cap_file, message_count, cap_stop, length>>
    /\ UNCHANGED <<taxVars, nlVars, mainVars, corrVars, parseVars, renderVars, eventVars>>

\* The loop over 0..message_count is exhausted  (record_from_source.rs:93)
VerifyDone ==
    /\ capPc = "read_len"
    /\ Len(read_back) = message_count
    /\ capPc' = "done"
    /\ UNCHANGED <<captured, buffer, cap_file, message_count, cap_stop, read_pos, length,
                   read_back>>
    /\ UNCHANGED <<taxVars, nlVars, mainVars, corrVars, parseVars, renderVars, eventVars>>

CaptureNext ==
    \/ CapMessage
    \/ CapWriteLen
    \/ CapWriteBuf
    \/ CapWriteErr
    \/ CapCount
    \/ CapStreamEnd
    \/ CapCtrlC
    \/ VerifySeek
    \/ VerifyReadLen
    \/ VerifyReadMsg
    \/ VerifyDone

SpecCapture == CaptureInit /\ [][CaptureNext]_vars

(***************************************************************************)
(* event.rs: AuditEvent.  A bool result is "true" or "false"; "panic" is   *)
(* a call that unwinds instead of returning.                               *)
(***************************************************************************)
\* AuditEvent::new_simple (event.rs:11-17): Self { records: vec![record] }
new_simple(record_) == AuditEvent(<<record_>>)

BoolResult(b) == IF b THEN "true" ELSE "false"

\* AuditEvent::is_simple (event.rs:55-58):
\* assert!(!self.records.is_empty()); self.records.len() == 1
is_simple(self) ==
    IF self.records = <<>> THEN "panic"
    ELSE BoolResult(Len(self.records) = 1)

is_compound_AtLeastOne(self) == BoolResult(Len(self.records) >= 1)

\* AuditEvent::is_compound (event.rs:60-62): self.records.len() > 1
is_compound(self) == BoolResult(Len(self.records) > 1)

\* Record lists of the events under test: `records` is a pub field, so an
\* event of any length, the empty one included, can be built (event.rs:4-8)
EventRecordLists == UNION {[1..n -> AuditRecords] : n \in 0..MaxEventRecords}

(***************************************************************************)
(* SpecEvent: an AuditEvent is built, by new_simple or field by field,     *)
(* and is_simple and is_compound are called on it.  Both take self by      *)
(* value; the two calls are made on events with the same records.          *)
(***************************************************************************)
EventInit ==
    /\ event = AuditEvent(<<>>)
    /\ new_from = NoRecord
    /\ simple_result = "none"
    /\ compound_result = "none"
    /\ evPc = "start"
    /\ TaxIdle
    /\ NlIdle
    /\ MainIdle
    /\ CorrIdle
    /\ ParseIdle
    /\ RenderIdle
    /\ CaptureIdle

\* AuditEvent::new_simple(record) (event.rs:11-17)
EventNewSimple ==
    /\ evPc = "start"
    /\ \E record_ \in AuditRecords :
          /\ event' = new_simple(record_)
          /\ new_from' = record_
    /\ evPc' = "built"
    /\ UNCHANGED <<simple_result, compound_result>>
    /\ UNCHANGED <<taxVars, nlVars, mainVars, corrVars, parseVars, renderVars, captureVars>>

\* AuditEvent { records } written out (event.rs:4-8)
EventLiteral ==
    /\ evPc = "start"
    /\ \E records \in EventRecordLists : event' = AuditEvent(records)
    /\ evPc' = "built"
    /\ UNCHANGED <<new_from, simple_result, compound_result>>
    /\ UNCHANGED <<taxVars, nlVars, mainVars, corrVars, parseVars, renderVars, captureVars>>

\* event.is_simple() (event.rs:55-58)
EventIsSimple ==
    /\ evPc = "built"
    /\ simple_result = "none"
    /\ simple_result' = is_simple(event)
    /\ UNCHANGED <<event, new_from, compound_result, evPc>>
    /\ UNCHANGED <<taxVars, nlVars, mainVars, corrVars, parseVars, renderVars, captureVars>>

\* event.is_compound() (event.rs:60-62)
EventIsCompound ==
    /\ evPc = "built"
    /\ compound_result = "none"
    /\ compound_result' = is_compound(event)
    /\ UNCHANGED <<event, new_from, simple_result, evPc>>
    /\ UNCHANGED <<taxVars, nlVars, mainVars, corrVars, parseVars, renderVars, captureVars>>

EventNext ==
    \/ EventNewSimple
    \/ EventLiteral
    \/ EventIsSimple
    \/ EventIsCompound

SpecEvent == EventInit /\ [][EventNext]_vars

(***************************************************************************)
(* Properties.                                                             *)
(***************************************************************************)
\* C10: for every 16-bit code c, u16::from(RecordType::from(c)) = c; both
\* conversions yield a value of their result type for every input, and a
\* code without a named variant is mapped to Unknown(c).
C10_RoundTripCode ==
    /\ taxPc \in {"symbol", "code"} =>
          /\ record_type \in RecordType
          /\ (code \notin NamedCodes => record_type = Unknown(code))
    /\ taxPc = "code" => (num \in U16 /\ num = code)

\* C10 witness: a code without a named variant (1301, between SYSCALL and
\* PATH) has been converted to Unknown(1301) and back.
C10_Witness ==
    /\ taxPc = "code"
    /\ code = 1301
    /\ record_type = Unknown(1301)
    /\ num = 1301

\* C11 as stated: for every RecordType value t (every named variant and every
\* Unknown(v) with v any 16-bit code), RecordType::from(u16::from(t)) = t.
C11_RoundTripTypeAnyUnknown ==
    taxPc = "type_back" => round_trip = record_type

\* C11: for every named variant t and every Unknown(v) whose v is not the
\* code of a named variant, RecordType::from(u16::from(t)) = t; for Unknown(v)
\* with v the code of a named variant the result is that named variant.
C11_RoundTripType ==
    taxPc = "type_back" =>
        IF record_type.variant = "Unknown" /\ record_type.v \in NamedCodes
        THEN /\ round_trip.variant # "Unknown"
             /\ U16FromRecordType(round_trip) = record_type.v
        ELSE round_trip = record_type

\* C11 witness: the value Unknown(1301), whose code has no named variant, has
\* been converted to 1301 and back to Unknown(1301).
C11_Witness ==
    /\ taxPc = "type_back"
    /\ record_type = Unknown(1301)
    /\ num = 1301
    /\ round_trip = Unknown(1301)

\* A token contains the character ch
Contains(part, ch) == \E i \in 1..Len(part) : part[i] = ch

\* C12: for a line that is not blank, with its whitespace-separated tokens:
\* if some token other than ":" contains no '=', read_to_fields returns
\* InvalidLine carrying the line unchanged and no Record is ever built from
\* the line; otherwise (every token without '=' is a lone ":") read_to_fields
\* returns Ok and the ":" tokens contribute no field.
C12_TokenWithoutEqualsIsInvalidLine ==
    (linePc \in {"fields", "record", "failed"} /\ ~TrimIsEmpty(line)) =>
        LET parts == split_whitespace(line)
            bad == \E i \in 1..Len(parts) :
                       ~Contains(parts[i], "=") /\ parts[i] # <<":">>
        IN IF bad
           THEN /\ fields_result = Err(InvalidLine(line))
                /\ linePc # "record"
                /\ record_result.tag # "Ok"
                /\ linePc = "failed" => record_result = Err(InvalidLine(line))
           ELSE /\ fields_result.tag = "Ok"
                /\ Cardinality(DOMAIN fields_result.value.fields)
                       <= Cardinality({i \in 1..Len(parts) : Contains(parts[i], "=")})
                /\ \A key \in DOMAIN fields_result.value.fields :
                       \E i \in 1..Len(parts) :
                           /\ Contains(parts[i], "=")
                           /\ key \o <<"=">> \o fields_result.value.fields[key] = parts[i]
                /\ linePc = "record" => record_result.tag = "Ok"

\* C12 witness: the line "k= : k" has failed: its first token is a field, its
\* second is a lone ":" and its third has no '='.
C12_Witness ==
    /\ linePc = "failed"
    /\ line = <<"k", "=", " ", ":", " ", "k">>
    /\ fields_result = Err(InvalidLine(line))
    /\ record_result = Err(InvalidLine(line))

\* Records parse_log_file hands to its caller
ReturnedRecords == IF file_result.tag = "Ok" THEN file_result.value ELSE <<>>

\* C13: when parse_log_file has finished with a file that could be opened
\* and whose lines could all be read, every well-formed line of the file has
\* its Record among the Records returned, whether or not another line of the
\* file is malformed.
C13_MalformedLineLeavesOtherLinesParsed ==
    (filePc = "done" /\ file_exists /\ \A i \in 1..Len(file) : file[i].readable) =>
        \A i \in 1..Len(file) :
            LineItemResult(file[i]).tag = "Ok" =>
                \E j \in 1..Len(ReturnedRecords) :
                    ReturnedRecords[j] = LineItemResult(file[i]).value

\* Key and value of a token that contains '=': the text before and after
\* its first '='
KeyOf(part) == SubSeq(part, 1, find(part, "=") - 1)

ValueOf(part) == SubSeq(part, find(part, "=") + 1, Len(part))

\* Two key=value tokens of the line have the same non-empty key and
\* different values
HasDuplicateKey(s) ==
    LET parts == split_whitespace(s)
    IN \E i, j \in 1..Len(parts) :
           /\ i < j
           /\ Contains(parts[i], "=")
           /\ Contains(parts[j], "=")
           /\ KeyOf(parts[i]) # <<>>
           /\ KeyOf(parts[i]) = KeyOf(parts[j])
           /\ ValueOf(parts[i]) # ValueOf(parts[j])

\* C14: when read_to_fields has run on a line in which two key=value tokens
\* have the same key (here: a non-empty key, with different values), its
\* result is an error of kind DuplicateField, never a field set in which the
\* later value has replaced the earlier one.
C14_DuplicateKeyIsDuplicateField ==
    (linePc \in {"fields", "record", "failed"} /\ HasDuplicateKey(line)) =>
        /\ fields_result.tag = "Err"
        /\ fields_result.error.kind = "DuplicateField"

\* C16: every legacy line written is exactly "type=" + symbol + " msg=" +
\* data, with symbol the audit name of the type made from the message's code
\* (SYSCALL for 1300, PATH for 1302) and data the message's text unchanged.
C16_LegacyLineLayout ==
    \A i \in 1..Len(log_lines) :
        /\ log_lines[i] = "type=" \o as_audit_str(RecordTypeFromU16(messages[i].message_type))
                              \o " msg=" \o messages[i].data
        /\ messages[i].message_type = 1300 =>
               log_lines[i] = "type=SYSCALL msg=" \o messages[i].data
        /\ messages[i].message_type = 1302 =>
               log_lines[i] = "type=PATH msg=" \o messages[i].data

\* C16 witness: the record of test_record_to_log (code 1300, "example data")
\* has been rendered as "type=SYSCALL msg=example data".
C16_Witness ==
    /\ Len(log_lines) >= 1
    /\ messages[1] = [message_type |-> 1300, data |-> "example data"]
    /\ log_lines[1] = "type=SYSCALL msg=example data"

\* C15: two records whose type codes differ are never rendered to the same
\* text, also when neither code has a named variant; so the type code can be
\* read back from the rendered line.
C15_DistinctTypeCodesRenderDistinctly ==
    \A i, j \in 1..Len(log_lines) :
        messages[i].message_type # messages[j].message_type =>
            log_lines[i] # log_lines[j]

\* The listener task has ended because the connection could not be opened,
\* enable_events failed, or the message stream ended
TransportDead == nlPc \in {"failed", "finished"}

\* C17: once the transport has failed (connection not opened, enabling
\* failed, or stream ended), the pipeline ends: main() shuts the stages down
\* and returns, without waiting for SIGINT.
C17_TransportFailureEndsPipeline ==
    TransportDead ~> (mainPc = <<"returned", 0>>)

\* The records of all emitted events, event after event
RECURSIVE EmittedRecords(_)
EmittedRecords(evs) ==
    IF evs = <<>> THEN <<>> ELSE Head(evs).records \o EmittedRecords(Tail(evs))

\* The bag (multiset) of the elements of a sequence
RECURSIVE SeqBag(_)
SeqBag(s) ==
    IF s = <<>> THEN EmptyBag ELSE SeqBag(Tail(s)) (+) SetToBag({Head(s)})

\* The correlator stage has gone through a shutdown or through IdleLimit
\* sweeps without a new record
CorrelatorQuiescent ==
    \/ taskPc["correlator"] = "cancelled"
    \/ idleTicks = IdleLimit

\* C1: once the records delivered to the correlator have been followed by
\* enough sweeps or by a shutdown, every delivered record is in exactly one
\* emitted AuditEvent, exactly once.
C1_EveryRecordInExactlyOneEvent ==
    CorrelatorQuiescent => SeqBag(EmittedRecords(events)) = SeqBag(delivered)

\* C5: in every state, every delivered record that has not been emitted is
\* held exactly once by the accumulator of the correlator (which holds the
\* records of one key only, so at most one accumulation per key exists).
C5_UnemittedRecordsAreHeld ==
    SeqBag(delivered) = SeqBag(EmittedRecords(events)) (+) SeqBag(curr_records)

\* C6: once the delivered records have stayed without a further record for
\* more than the timeout and a sweep has run, they have left the accumulator
\* and each of them is in an emitted AuditEvent.
C6_IdleRecordsAreEmitted ==
    (delivered # <<>> /\ idleTicks = IdleLimit) =>
        /\ curr_records = <<>>
        /\ \A i \in 1..Len(delivered) :
              \E j \in 1..Len(events) :
                 \E k \in 1..Len(events[j].records) : events[j].records[k] = delivered[i]

\* C7: when the correlator stage has terminated after the abort of the
\* shutdown path, no record is left in the accumulator and every record it
\* was given is in an emitted AuditEvent.
C7_ShutdownFlushesOpenEvents ==
    taskPc["correlator"] = "cancelled" =>
        /\ curr_records = <<>>
        /\ Len(EmittedRecords(events)) >= Len(delivered)
        /\ \A r \in {delivered[i] : i \in 1..Len(delivered)} :
              \E j \in 1..Len(events) : r \in {events[j].records[k] : k \in 1..Len(events[j].records)}

\* The raw event a send of the listener task still holds
InHand == IF nlPc \in {"send", "rejected"} THEN <<nlPending>> ELSE <<>>

\* C8: a stage that has stopped on cancellation has processed every item
\* that was buffered in its input queue: for the transport stage, every raw
\* event its channel accepted has been taken out by recv().
C8_StoppedStageHasDrainedItsQueue ==
    taskPc["transport"] = "cancelled" => received = enqueued

\* s is an initial segment of t
IsPrefix(s, t) == Len(s) <= Len(t) /\ s = SubSeq(t, 1, Len(s))

\* C9: the queue never holds more than its capacity; while the receiver is
\* open every raw event handed to send is, in the order sent, either
\* accepted by the queue or still held by the suspended send (a full queue
\* suspends the producer, it drops nothing), and the accepted events are
\* exactly those already received followed by those still buffered; a send
\* is rejected only after the receiver has been closed; events are accepted
\* and received in the order in which they were sent.
C9_BoundedQueueBackpressure ==
    /\ Len(transportChan) <= ChannelCapacity
    /\ rxOpen => handed = enqueued \o InHand
    /\ rxOpen => enqueued = received \o transportChan
    /\ nlPc = "rejected" => ~rxOpen
    /\ IsPrefix(enqueued, handed)
    /\ IsPrefix(received, enqueued)

\* C9 witness: the queue was full with the listener suspended in send, a
\* recv() made room, the suspended send completed, and the queue is full
\* again with the next send suspended.
C9_Witness ==
    /\ rxOpen
    /\ Len(received) >= 1
    /\ Len(enqueued) > ChannelCapacity
    /\ Len(transportChan) = ChannelCapacity
    /\ nlPc = "send"

\* The record alone ends its event (correlator.rs:24-33), for the types of
\* the model: PROCTITLE, or a type below AUDIT_FIRST_EVENT (SYSCALL, 1300)
ClosesAlone(r) ==
    \/ r.record_type = Named("Proctitle")
    \/ U16FromRecordType(r.record_type) < U16FromRecordType(Named("Syscall"))

\* C18: when the first record has been handed to the correlator, an event
\* has been emitted in that same step exactly if the record alone satisfies
\* a closing condition, and then it is the one-record event of that record;
\* so a single record of a type below the first-event threshold (1100) is
\* emitted at once as a one-record event.
C18_SelfClosingRecordIsEmittedAtOnce ==
    Len(delivered) = 1 =>
        events = IF ClosesAlone(delivered[1])
                 THEN <<AuditEvent(<<delivered[1]>>)>>
                 ELSE <<>>

\* Scenario A: SYSCALL, CWD, PATH, PROCTITLE of the event audit(100.100:5)
ScenarioA ==
    << AuditRecord(Named("Syscall"), "audit(100.100:5):"),
       AuditRecord(Named("Cwd"), "audit(100.100:5):"),
       AuditRecord(Named("Path"), "audit(100.100:5):"),
       AuditRecord(Named("Proctitle"), "audit(100.100:5):") >>

\* C19: while the records of scenario A arrive in order, no event is emitted
\* before the PROCTITLE record, and once it has arrived exactly one event
\* has been emitted, carrying the four records in arrival order.
C19_ClosedEventCarriesItsRecordsInOrder ==
    IsPrefix(delivered, ScenarioA) =>
        events = IF Len(delivered) = Len(ScenarioA)
                 THEN <<AuditEvent(ScenarioA)>>
                 ELSE <<>>

\* Indices of the emitted events that carry the record r
EventsCarrying(r) ==
    {j \in 1..Len(events) : \E k \in 1..Len(events[j].records) : events[j].records[k] = r}

\* C21: when one record has arrived and the timer of the correlator stage
\* has ticked after it, in either order of the emission and the tick, the
\* record has been emitted by exactly one of the two: at once by the closing
\* rule if the record closes its event alone, otherwise by the sweep once
\* the timeout has passed; never by both and never by neither.
C21_ArrivalAndTickEmitExactlyOnce ==
    (/\ Len(delivered) = 1
     /\ idleTicks >= 1
     /\ (ClosesAlone(delivered[1]) \/ idleTicks = IdleLimit)) =>
        Cardinality(EventsCarrying(delivered[1])) = 1

\* The line is one field key="..." : a key of letters, '=', and a value in
\* double quotes that contains a blank and no further quote.  The result is
\* the position of the '=', or 0 if the line is not of that form.
QuotedFieldEq(s) ==
    LET fits(e) ==
            /\ e > 1
            /\ Len(s) >= e + 3
            /\ \A i \in 1..(e - 1) : s[i] \in {"k", "v"}
            /\ s[e] = "="
            /\ s[e + 1] = "\""
            /\ s[Len(s)] = "\""
            /\ \A i \in (e + 2)..(Len(s) - 1) : s[i] # "\""
            /\ \E i \in (e + 2)..(Len(s) - 1) : s[i] = " "
    IN IF \E e \in 1..Len(s) : fits(e)
       THEN CHOOSE e \in 1..Len(s) : fits(e)
       ELSE 0

\* C22: when read_to_fields has run on a line that is one field whose value
\* is a double-quoted string containing a blank, its result is Ok with
\* exactly that one field, the value being the whole quoted string.
C22_QuotedValueIsOneField ==
    (linePc \in {"fields", "record", "failed"} /\ QuotedFieldEq(line) # 0) =>
        LET e == QuotedFieldEq(line)
        IN /\ fields_result.tag = "Ok"
           /\ DOMAIN fields_result.value.fields = {SubSeq(line, 1, e - 1)}
           /\ fields_result.value.fields[SubSeq(line, 1, e - 1)]
                  = SubSeq(line, e + 1, Len(line))

\* C23: when read_to_fields has run on a line that is empty or consists of
\* blanks only, its result is Err(InvalidLine) carrying the line, not an
\* empty field set, and no Record is built from the line.
C23_BlankLineIsInvalidLine ==
    (linePc \in {"fields", "record", "failed"}
        /\ \A i \in 1..Len(line) : line[i] = " ") =>
        /\ fields_result = Err(InvalidLine(line))
        /\ linePc # "record"

\* C23 witness: read_to_fields has rejected the line of two blanks.
C23_Witness ==
    /\ linePc = "failed"
    /\ line = <<" ", " ">>
    /\ fields_result = Err(InvalidLine(<<" ", " ">>))
    /\ record_result = Err(InvalidLine(<<" ", " ">>))

\* The (key, value) pairs of a line: every whitespace-separated token that
\* contains '=' gives the text before its first '=' and the text after it
PairsOfLine(s) ==
    LET parts == split_whitespace(s)
    IN { <<SubSeq(parts[i], 1, e - 1), SubSeq(parts[i], e + 1, Len(parts[i]))>> :
           <<i, e>> \in { ie \in (1..Len(parts)) \X (1..Len(s)) :
                              /\ ie[2] <= Len(parts[ie[1]])
                              /\ parts[ie[1]][ie[2]] = "="
                              /\ \A j \in 1..(ie[2] - 1) : parts[ie[1]][j] # "=" } }

\* A line is well-formed: it has a token, every token is a lone ":" or
\* contains '=', and no key occurs twice
WellFormedLine(s) ==
    LET parts == split_whitespace(s)
    IN /\ parts # <<>>
       /\ \A i \in 1..Len(parts) : parts[i] = <<":">> \/ Contains(parts[i], "=")
       /\ \A p, q \in PairsOfLine(s) : p[1] = q[1] => p = q

\* The (key, value) pairs a Record holds
PairsOfRecord(r) == {<<key, r.fields[key]>> : key \in DOMAIN r.fields}

\* C24: when parse_log_file has finished with a file that could be opened,
\* whose lines could all be read and are all well-formed, it has returned Ok
\* with one Record per line in file order, and the fields of each Record are
\* exactly the pairs of its line: each token split at its first '=', quotes
\* kept in the value, lone ":" tokens giving no field.
C24_WellFormedFileGivesOneRecordPerLine ==
    (/\ filePc = "done"
     /\ file_exists
     /\ \A i \in 1..Len(file) : file[i].readable /\ WellFormedLine(file[i].text)) =>
        /\ file_result.tag = "Ok"
        /\ Len(file_result.value) = Len(file)
        /\ \A i \in 1..Len(file) :
               PairsOfRecord(file_result.value[i]) = PairsOfLine(file[i].text)

\* C24 witness: the file of the three lines ": v=", k="v" and v==k has been
\* parsed into three Records, the second holding k -> "v" with its quotes and
\* the third v -> =k.
C24_Witness ==
    /\ filePc = "done"
    /\ file_exists
    /\ Len(file) = 3
    /\ file[1] = [readable |-> TRUE, text |-> <<":", " ", "v", "=">>]
    /\ file[2] = [readable |-> TRUE, text |-> <<"k", "=", "\"", "v", "\"">>]
    /\ file[3] = [readable |-> TRUE, text |-> <<"v", "=", "=", "k">>]
    /\ file_result.tag = "Ok"
    /\ Len(file_result.value) = 3
    /\ PairsOfRecord(file_result.value[1]) = {<< <<"v">>, <<>> >>}
    /\ PairsOfRecord(file_result.value[2]) = {<< <<"k">>, <<"\"", "v", "\"">> >>}
    /\ PairsOfRecord(file_result.value[3]) = {<< <<"v">>, <<"=", "k">> >>}

\* The frame of a message: its length in 4 bytes, little-endian, then its bytes
Frame(b) == <<Len(b) % 256, (Len(b) \div 256) % 256, (Len(b) \div 65536) % 256,
              (Len(b) \div 16777216) % 256>> \o b

\* The frames of a sequence of messages, one after the other
RECURSIVE Frames(_)
Frames(bs) == IF bs = <<>> THEN <<>> ELSE Frame(Head(bs)) \o Frames(Tail(bs))

\* The messages of the complete frames at the start of a byte sequence
RECURSIVE CompleteFrames(_)
CompleteFrames(bytes) ==
    IF Len(bytes) < 4
    THEN <<>>
    ELSE LET n == bytes[1] + 256 * bytes[2] + 65536 * bytes[3] + 16777216 * bytes[4]
         IN IF Len(bytes) < 4 + n
            THEN <<>>
            ELSE <<SubSeq(bytes, 5, 4 + n)>> \o CompleteFrames(SubSeq(bytes, 5 + n, Len(bytes)))

\* C25: the capture file always starts with the frames of the messages
\* counted so far, in order.  Whenever the capture loop is at its await or
\* the capture has stopped, message_count is the number of complete frames
\* in the file and these frames are the counted messages; after Ctrl+C or
\* the end of the stream the file holds nothing else (no partial frame) and
\* every message taken from the stream is counted.  Reading back never
\* fails, yields the counted messages in order, and after message_count
\* frames has yielded all of them.
C25_CaptureFileFramesRoundTrip ==
    LET counted == SubSeq(captured, 1, message_count)
    IN /\ message_count <= Len(captured)
       /\ IsPrefix(Frames(counted), cap_file)
       /\ capPc \notin {"write_len", "write_buf", "count"} =>
              /\ CompleteFrames(cap_file) = counted
              /\ message_count = Len(CompleteFrames(cap_file))
       /\ cap_stop \in {"ctrl_c", "end"} =>
              /\ message_count = Len(captured)
              /\ cap_file = Frames(captured)
       /\ capPc # "read_failed"
       /\ IsPrefix(read_back, counted)
       /\ capPc = "done" => read_back = counted

\* C25 witness: two messages (1 and 0 1) were captured, the capture was
\* stopped by Ctrl+C, and both frames have been read back.
C25_Witness ==
    /\ capPc = "done"
    /\ cap_stop = "ctrl_c"
    /\ message_count = 2
    /\ captured = << <<1>>, <<0, 1>> >>
    /\ cap_file = <<1, 0, 0, 0, 1, 2, 0, 0, 0, 0, 1>>
    /\ read_back = << <<1>>, <<0, 1>> >>

\* C26: new_simple(record) yields an event holding exactly that one
\* record; once both calls have been made on an event, a non-empty record
\* list makes exactly one of is_simple (exactly one record) and is_compound
\* (more than one record) true, and an empty record list makes is_simple
\* fail its assertion while is_compound returns false.
C26_SimpleXorCompound ==
    /\ (evPc = "built" /\ new_from # NoRecord) => event.records = <<new_from>>
    /\ simple_result # "none" =>
          /\ (event.records = <<>>) <=> (simple_result = "panic")
          /\ (event.records # <<>>) =>
                ((simple_result = "true") <=> (Len(event.records) = 1))
    /\ compound_result # "none" =>
          /\ compound_result \in {"true", "false"}
          /\ (compound_result = "true") <=> (Len(event.records) > 1)
    /\ (simple_result # "none" /\ compound_result # "none") =>
          IF event.records = <<>>
          THEN simple_result = "panic" /\ compound_result = "false"
          ELSE /\ simple_result \in {"true", "false"}
               /\ (simple_result = "true") # (compound_result = "true")

\* an empty event on which is_simple panicked and is_compound returned false
C26_Witness ==
    /\ event.records = <<>>
    /\ simple_result = "panic"
    /\ compound_result = "false"

SigintReceived == mainPc = <<"abort", 1>>

=============================================================================
